---- MODULE Spec2Model ----
(***************************************************************************)
(* Model of arcosx/annotationscale: a progressive replica rollout whose    *)
(* plan lives in the Deployment's annotations (model.go) and is advanced   *)
(* by DeploymentReconciler.Reconcile (reconciler.go).                      *)
(*                                                                         *)
(* Strings that encode integers are sequences of one-character strings,    *)
(* the steps JSON is a tree (array of objects with only the emitted        *)
(* fields), so encoding and decoding are real conversions.                 *)
(***************************************************************************)
EXTENDS Integers, Sequences, FiniteSets, TLC

\* ------------------------------------------------------------------ bounds
\* largest replica count used for spec.replicas and status.replicas
MaxReplicas == 2
\* the wall clock runs over 0..MaxTime (seconds)
MaxTime == 3
\* largest status.unavailableReplicas the environment reports
MaxUnavailableObserved == 2
\* max_wait_available_time (seconds) of the plans the initiator writes
PlanMaxWaitAvailableSecond == 2

\* goroutines that call the manager concurrently
MaxCallers == 2

\* ------------------------------------------------------- program constants
StepStateUpgrade == "StepUpgrade"
StepStatePaused == "StepPaused"
StepStateReady == "StepReady"
StepStateCompleted == "Completed"
\* declared in model.go; no case of Reconcile handles it
StepStateError == "Error"
\* used by reconciler.go; its declaration is not in model.go as given, the value
\* is the state name of the persisted representation
StepStateTimeout == "Timeout"

\* RequeueAfter: 5 * time.Second
RequeueSeconds == 5

ErrorScaleAnnotationParseSteps == "not include steps"
ErrorScaleAnnotationParseCurrentStepIndex == "not include current_step_index"
ErrorScaleAnnotationParseCurrentStepState == "not include current_step_state"

\* ------------------------------------------------------------------- codec
DigitChars == <<"0", "1", "2", "3", "4", "5", "6", "7", "8", "9">>

RECURSIVE Digits(_)
Digits(n) ==
    IF n < 10 THEN <<DigitChars[n + 1]>>
    ELSE Append(Digits(n \div 10), DigitChars[(n % 10) + 1])

\* strconv.Itoa / strconv.FormatInt(_, 10)
Itoa(n) == IF n < 0 THEN <<"-">> \o Digits(0 - n) ELSE Digits(n)

DigitValue(c) == CHOOSE d \in 0..9 : DigitChars[d + 1] = c

RECURSIVE DigitsValue(_)
DigitsValue(s) ==
    IF Len(s) = 0 THEN 0
    ELSE 10 * DigitsValue(SubSeq(s, 1, Len(s) - 1)) + DigitValue(s[Len(s)])

\* strconv.ParseInt(s, 10, _): optional sign, then one or more digits
ParseInt(s) ==
    LET signed == Len(s) > 0 /\ s[1] \in {"+", "-"}
        body == IF signed THEN Tail(s) ELSE s
        ok == Len(body) > 0 /\ \A i \in 1..Len(body) : \E d \in 1..10 : DigitChars[d] = body[i]
    IN  IF ~ok THEN [ok |-> FALSE, val |-> 0]
        ELSE [ok |-> TRUE,
              val |-> IF signed /\ s[1] = "-" THEN 0 - DigitsValue(body) ELSE DigitsValue(body)]

\* type Step struct { Replicas int32 `json:"replicas,omitempty"`; Pause bool `json:"pause,omitempty"` }
Step(replicas, pause) == [Replicas |-> replicas, Pause |-> pause]

\* one JSON object of a Step: omitempty drops replicas 0 and pause false
StepObject(s) ==
    [f \in ((IF s.Replicas # 0 THEN {"replicas"} ELSE {}) \cup (IF s.Pause THEN {"pause"} ELSE {}))
        |-> IF f = "replicas" THEN s.Replicas ELSE s.Pause]

\* json.Marshal(scaleAnnotation.Steps)
MarshalSteps(steps) ==
    [kind |-> "array", elems |-> [i \in 1..Len(steps) |-> StepObject(steps[i])]]

\* a steps value that is not JSON
InvalidJSON == [kind |-> "invalid", elems |-> <<>>]

\* mutant of ObjectStep: a step object without a pause field decodes as a
\* pause step
ObjectStep_PauseDefaultsTrue(o) ==
    [Replicas |-> IF "replicas" \in DOMAIN o THEN o["replicas"] ELSE 0,
     Pause |-> IF "pause" \in DOMAIN o THEN o["pause"] ELSE TRUE]

ObjectStep(o) ==
    [Replicas |-> IF "replicas" \in DOMAIN o THEN o["replicas"] ELSE 0,
     Pause |-> IF "pause" \in DOMAIN o THEN o["pause"] ELSE FALSE]

\* json.Unmarshal([]byte(stepsJSON), &steps)
UnmarshalSteps(j) ==
    IF j.kind = "array"
    THEN [ok |-> TRUE, val |-> [i \in 1..Len(j.elems) |-> ObjectStep(j.elems[i])]]
    ELSE IF j.kind = "null" THEN [ok |-> TRUE, val |-> <<>>]
    ELSE [ok |-> FALSE, val |-> <<>>]

\* annotations[k] = v on a map
Put(m, k, v) == [x \in (DOMAIN m) \cup {k} |-> IF x = k THEN v ELSE m[x]]

NewScaleAnnotation(t) ==
    [Steps |-> <<>>, CurrentStepIndex |-> 0, CurrentStepState |-> "", Message |-> "",
     MaxWaitAvailableSecond |-> 600,
     MaxUnavailableReplicas |-> 1,
     LastUpdateTime |-> t]

\* mutant of SetScaleAnnotation: the plan is written into a fresh map
SetScaleAnnotation_FreshBag(annotations, sa) ==
    LET a1 == Put(<<>>, "steps", MarshalSteps(sa.Steps))
        a2 == Put(a1, "current_step_index", Itoa(sa.CurrentStepIndex))
        a3 == Put(a2, "current_step_state", sa.CurrentStepState)
        a4 == Put(a3, "message", sa.Message)
        a5 == Put(a4, "max_wait_available_time", Itoa(sa.MaxWaitAvailableSecond))
        a6 == Put(a5, "max_unavailable_replicas", Itoa(sa.MaxUnavailableReplicas))
    IN  Put(a6, "last_update_time", Itoa(sa.LastUpdateTime))

\* mutant of SetScaleAnnotation: the message is written under a key of its own
SetScaleAnnotation_MisspelledKey(annotations, sa) ==
    LET a1 == Put(annotations, "steps", MarshalSteps(sa.Steps))
        a2 == Put(a1, "current_step_index", Itoa(sa.CurrentStepIndex))
        a3 == Put(a2, "current_step_state", sa.CurrentStepState)
        a4 == Put(a3, "scale_message", sa.Message)
        a5 == Put(a4, "max_wait_available_time", Itoa(sa.MaxWaitAvailableSecond))
        a6 == Put(a5, "max_unavailable_replicas", Itoa(sa.MaxUnavailableReplicas))
    IN  Put(a6, "last_update_time", Itoa(sa.LastUpdateTime))

\* a nil map and an empty map are both the function with the empty domain: the
\* make() of the nil case leaves nothing else to tell them apart
SetScaleAnnotation(annotations, sa) ==
    LET a1 == Put(annotations, "steps", MarshalSteps(sa.Steps))
        a2 == Put(a1, "current_step_index", Itoa(sa.CurrentStepIndex))
        a3 == Put(a2, "current_step_state", sa.CurrentStepState)
        a4 == Put(a3, "message", sa.Message)
        a5 == Put(a4, "max_wait_available_time", Itoa(sa.MaxWaitAvailableSecond))
        a6 == Put(a5, "max_unavailable_replicas", Itoa(sa.MaxUnavailableReplicas))
    IN  Put(a6, "last_update_time", Itoa(sa.LastUpdateTime))

\* the optional integer keys of ReadScaleAnnotation; absent keeps the default
OptInt(annotations, k, default) ==
    IF k \in DOMAIN annotations
    THEN ParseInt(annotations[k])
    ELSE [ok |-> TRUE, val |-> default]

\* mutant of ReadScaleAnnotation: an optional key that does not parse keeps its
\* default instead of failing the decode
ReadScaleAnnotation_LenientOptional(annotations, t) ==
    LET sa0 == NewScaleAnnotation(t)
        has(k) == k \in DOMAIN annotations
        steps == UnmarshalSteps(annotations["steps"])
        index == ParseInt(annotations["current_step_index"])
        opt(k, default) ==
            IF OptInt(annotations, k, default).ok THEN OptInt(annotations, k, default).val
            ELSE default
    IN  IF ~has("steps") THEN [err |-> ErrorScaleAnnotationParseSteps, sa |-> sa0]
        ELSE IF ~steps.ok THEN [err |-> "parse", sa |-> sa0]
        ELSE IF ~has("current_step_index")
             THEN [err |-> ErrorScaleAnnotationParseCurrentStepIndex, sa |-> sa0]
        ELSE IF ~index.ok THEN [err |-> "parse", sa |-> sa0]
        ELSE IF ~has("current_step_state")
             THEN [err |-> ErrorScaleAnnotationParseCurrentStepState, sa |-> sa0]
        ELSE [err |-> "nil",
              sa |-> [Steps |-> steps.val,
                      CurrentStepIndex |-> index.val,
                      CurrentStepState |-> annotations["current_step_state"],
                      Message |-> IF has("message") THEN annotations["message"] ELSE sa0.Message,
                      MaxWaitAvailableSecond |->
                          opt("max_wait_available_time", sa0.MaxWaitAvailableSecond),
                      MaxUnavailableReplicas |->
                          opt("max_unavailable_replicas", sa0.MaxUnavailableReplicas),
                      LastUpdateTime |-> opt("last_update_time", sa0.LastUpdateTime)]]

\* err = "nil", one of the three sentinel errors, or "parse"
ReadScaleAnnotation(annotations, t) ==
    LET sa0 == NewScaleAnnotation(t)
        has(k) == k \in DOMAIN annotations
        steps == UnmarshalSteps(annotations["steps"])
        index == ParseInt(annotations["current_step_index"])
        wait == OptInt(annotations, "max_wait_available_time", sa0.MaxWaitAvailableSecond)
        unav == OptInt(annotations, "max_unavailable_replicas", sa0.MaxUnavailableReplicas)
        last == OptInt(annotations, "last_update_time", sa0.LastUpdateTime)
    IN  IF ~has("steps") THEN [err |-> ErrorScaleAnnotationParseSteps, sa |-> sa0]
        ELSE IF ~steps.ok THEN [err |-> "parse", sa |-> sa0]
        ELSE IF ~has("current_step_index")
             THEN [err |-> ErrorScaleAnnotationParseCurrentStepIndex, sa |-> sa0]
        ELSE IF ~index.ok THEN [err |-> "parse", sa |-> sa0]
        ELSE IF ~has("current_step_state")
             THEN [err |-> ErrorScaleAnnotationParseCurrentStepState, sa |-> sa0]
        ELSE IF ~wait.ok \/ ~unav.ok \/ ~last.ok THEN [err |-> "parse", sa |-> sa0]
        ELSE [err |-> "nil",
              sa |-> [Steps |-> steps.val,
                      CurrentStepIndex |-> index.val,
                      CurrentStepState |-> annotations["current_step_state"],
                      Message |-> IF has("message") THEN annotations["message"] ELSE sa0.Message,
                      MaxWaitAvailableSecond |-> wait.val,
                      MaxUnavailableReplicas |-> unav.val,
                      LastUpdateTime |-> last.val]]

\* mutant of StepDeadline: the wait budget is not added
StepDeadline_NoBudget(sa) == sa.LastUpdateTime

\* sa.LastUpdateTime.Add(sa.MaxWaitAvailableSecond * time.Second)
StepDeadline(sa) == sa.LastUpdateTime + sa.MaxWaitAvailableSecond

\* ------------------------------------------------------------------ engine
\* A deployment d is [annotations, replicas, replicasNil, paused, statusReplicas,
\* availableReplicas, unavailableReplicas]: the fields Reconcile reads.
\* Spec.Replicas is a *int32: replicasNil says the pointer is nil, and replicas is
\* the number it points at otherwise.

\* What one pass decides.  patch says whether patchDeployment is called with
\* (annotations, replicas, paused); requeueAfter/err is what the pass returns
\* when no patch is attempted or the patch succeeds, failRequeueAfter/failErr
\* what it returns when the re-fetch or the patch fails.
NoPatch(d, state, branch, requeue, err) ==
    [state |-> state, branch |-> branch, patch |-> FALSE,
     annotations |-> d.annotations, replicas |-> d.replicas, paused |-> d.paused,
     requeueAfter |-> requeue, err |-> err,
     failRequeueAfter |-> requeue, failErr |-> err]

WithPatch(state, branch, annotations, replicas, paused, requeue, failRequeue, failErr) ==
    [state |-> state, branch |-> branch, patch |-> TRUE,
     annotations |-> annotations, replicas |-> replicas, paused |-> paused,
     requeueAfter |-> requeue, err |-> "nil",
     failRequeueAfter |-> failRequeue, failErr |-> failErr]

\* the state the drift gate and the Ready advance derive from a step
StepTargetState(step) == IF step.Pause THEN StepStatePaused ELSE StepStateUpgrade

\* mutant of FinishedState: the last step is not recognised
FinishedState_AlwaysReady(sa) == StepStateReady

\* mutant of FinishedState: every finished step finishes the plan
FinishedState_AlwaysCompleted(sa) == StepStateCompleted

\* the state a finished step moves to
FinishedState(sa) ==
    IF sa.CurrentStepIndex = Len(sa.Steps) THEN StepStateCompleted ELSE StepStateReady

\* mutant of BeforeDeadline: the deadline instant still counts as before
BeforeDeadline_Inclusive(sa, t) == t <= StepDeadline(sa)

\* mutant of BeforeDeadline: every pass counts as past the deadline
BeforeDeadline_Never(sa, t) == FALSE

\* now.Before(stepDeadline)
BeforeDeadline(sa, t) == t < StepDeadline(sa)

\* mutant of OverTolerance: unavailable = tolerance already fails
OverTolerance_NotStrict(d, sa) == d.unavailableReplicas >= sa.MaxUnavailableReplicas

\* deployment.Status.UnavailableReplicas > int32(scaleAnnotation.MaxUnavailableReplicas)
OverTolerance(d, sa) == d.unavailableReplicas > sa.MaxUnavailableReplicas

\* *deployment.Spec.Replicas != scaleAnnotation.Steps[CurrentStepIndex-1].Replicas
Drifted(d, sa) == d.replicas # sa.Steps[sa.CurrentStepIndex].Replicas

\* mutant of fixDeploymentReplicas: lastUpdateTime is not stamped
fixDeploymentReplicas_NoStamp(d, sa, t) ==
    LET step == sa.Steps[sa.CurrentStepIndex]
        sa2 == [sa EXCEPT !.CurrentStepState = StepTargetState(step)]
    IN  WithPatch(sa.CurrentStepState, "fix", SetScaleAnnotation(d.annotations, sa2),
                  step.Replicas, d.paused, RequeueSeconds, RequeueSeconds, "nil")

\* mutant of fixDeploymentReplicas: the repair also clears spec.paused
fixDeploymentReplicas_Unpauses(d, sa, t) ==
    LET step == sa.Steps[sa.CurrentStepIndex]
        sa2 == [sa EXCEPT !.CurrentStepState = StepTargetState(step), !.LastUpdateTime = t]
    IN  WithPatch(sa.CurrentStepState, "fix", SetScaleAnnotation(d.annotations, sa2),
                  step.Replicas, FALSE, RequeueSeconds, RequeueSeconds, "nil")

\* fixDeploymentReplicas; Reconcile drops its error and returns RequeueAfter 5s
fixDeploymentReplicas(d, sa, t) ==
    LET step == sa.Steps[sa.CurrentStepIndex]
        sa2 == [sa EXCEPT !.CurrentStepState = StepTargetState(step), !.LastUpdateTime = t]
    IN  WithPatch(sa.CurrentStepState, "fix", SetScaleAnnotation(d.annotations, sa2),
                  step.Replicas, d.paused, RequeueSeconds, RequeueSeconds, "nil")

\* mutant of Unpause: no retry is requested after the pause flag is cleared
Unpause_NoRequeue(d, sa) ==
    WithPatch(sa.CurrentStepState, "unpause", d.annotations, d.replicas, FALSE,
              0, 0, "patch")

\* mutant of Unpause: clearing the pause flag also finishes the step
Unpause_FinishesStep(d, sa) ==
    WithPatch(sa.CurrentStepState, "unpause",
              SetScaleAnnotation(d.annotations, [sa EXCEPT !.CurrentStepState = FinishedState(sa)]),
              d.replicas, FALSE, RequeueSeconds, RequeueSeconds, "patch")

\* deployment.Spec.Paused = false; patchDeployment (annotations as fetched)
Unpause(d, sa) ==
    WithPatch(sa.CurrentStepState, "unpause", d.annotations, d.replicas, FALSE,
              RequeueSeconds, RequeueSeconds, "patch")

\* mutant of Persist: the plan is written back without its tolerance
Persist_DropsTolerance(d, sa, sa2, branch, paused) ==
    WithPatch(sa.CurrentStepState, branch,
              SetScaleAnnotation(d.annotations, [sa2 EXCEPT !.MaxUnavailableReplicas = 0]),
              d.replicas, paused, 0, 0, "patch")

\* SetDeploymentScaleAnnotation + patchDeployment at the end of a case
Persist(d, sa, sa2, branch, paused) ==
    WithPatch(sa.CurrentStepState, branch, SetScaleAnnotation(d.annotations, sa2),
              d.replicas, paused, 0, 0, "patch")

Waiting(d, sa) == NoPatch(d, sa.CurrentStepState, "waiting", RequeueSeconds, "waiting")

\* mutant of caseUpgrade: a rollout that is still waiting for its replicas is
\* held to the deadline too
caseUpgrade_DeadlineWhileWaiting(d, sa, t) ==
    IF Drifted(d, sa) THEN fixDeploymentReplicas(d, sa, t)
    ELSE IF d.paused THEN Unpause(d, sa)
    ELSE IF d.statusReplicas # d.replicas /\ BeforeDeadline(sa, t) THEN Waiting(d, sa)
    ELSE IF d.statusReplicas # d.replicas
         THEN Persist(d, sa, [sa EXCEPT !.CurrentStepState = StepStateTimeout,
                                        !.LastUpdateTime = t], "timeout", d.paused)
    ELSE IF d.statusReplicas = d.availableReplicas
         THEN Persist(d, sa, [sa EXCEPT !.CurrentStepState = FinishedState(sa),
                                        !.LastUpdateTime = t], "available", d.paused)
    ELSE IF BeforeDeadline(sa, t)
         THEN NoPatch(d, sa.CurrentStepState, "converging", RequeueSeconds, "nil")
    ELSE IF OverTolerance(d, sa)
         THEN Persist(d, sa, [sa EXCEPT !.CurrentStepState = StepStateTimeout,
                                        !.LastUpdateTime = t], "timeout", d.paused)
    ELSE Persist(d, sa, [sa EXCEPT !.CurrentStepState = FinishedState(sa),
                                   !.LastUpdateTime = t], "tolerated", d.paused)

\* mutant of caseUpgrade: a rollout that is fully available is not recorded as
\* finished, the pass just asks to be retried
caseUpgrade_NeverFinishes(d, sa, t) ==
    IF Drifted(d, sa) THEN fixDeploymentReplicas(d, sa, t)
    ELSE IF d.paused THEN Unpause(d, sa)
    ELSE IF d.statusReplicas # d.replicas THEN Waiting(d, sa)
    ELSE IF d.statusReplicas = d.availableReplicas
         THEN NoPatch(d, sa.CurrentStepState, "converging", RequeueSeconds, "nil")
    ELSE IF BeforeDeadline(sa, t)
         THEN NoPatch(d, sa.CurrentStepState, "converging", RequeueSeconds, "nil")
    ELSE IF OverTolerance(d, sa)
         THEN Persist(d, sa, [sa EXCEPT !.CurrentStepState = StepStateTimeout,
                                        !.LastUpdateTime = t], "timeout", d.paused)
    ELSE Persist(d, sa, [sa EXCEPT !.CurrentStepState = FinishedState(sa),
                                   !.LastUpdateTime = t], "tolerated", d.paused)

caseUpgrade(d, sa, t) ==
    IF Drifted(d, sa) THEN fixDeploymentReplicas(d, sa, t)
    ELSE IF d.paused THEN Unpause(d, sa)
    ELSE IF d.statusReplicas # d.replicas THEN Waiting(d, sa)
    ELSE IF d.statusReplicas = d.availableReplicas
         THEN Persist(d, sa, [sa EXCEPT !.CurrentStepState = FinishedState(sa),
                                        !.LastUpdateTime = t], "available", d.paused)
    ELSE IF BeforeDeadline(sa, t)
         THEN NoPatch(d, sa.CurrentStepState, "converging", RequeueSeconds, "nil")
    ELSE IF OverTolerance(d, sa)
         THEN Persist(d, sa, [sa EXCEPT !.CurrentStepState = StepStateTimeout,
                                        !.LastUpdateTime = t], "timeout", d.paused)
    ELSE Persist(d, sa, [sa EXCEPT !.CurrentStepState = FinishedState(sa),
                                   !.LastUpdateTime = t], "tolerated", d.paused)

\* mutant of casePaused: a healthy pause point is patched even when already paused
casePaused_NoHeldCheck(d, sa, t) ==
    IF Drifted(d, sa) THEN fixDeploymentReplicas(d, sa, t)
    ELSE IF d.statusReplicas # d.replicas THEN Waiting(d, sa)
    ELSE IF d.statusReplicas = d.availableReplicas
         THEN Persist(d, sa, [sa EXCEPT !.LastUpdateTime = t], "available", TRUE)
    ELSE IF BeforeDeadline(sa, t)
         THEN NoPatch(d, sa.CurrentStepState, "converging", RequeueSeconds, "nil")
    ELSE IF OverTolerance(d, sa)
         THEN Persist(d, sa, [sa EXCEPT !.CurrentStepState = StepStateTimeout,
                                        !.LastUpdateTime = t], "timeout", d.paused)
    ELSE IF d.paused THEN NoPatch(d, sa.CurrentStepState, "held", 0, "nil")
    ELSE Persist(d, sa, [sa EXCEPT !.LastUpdateTime = t], "tolerated", TRUE)

\* mutant of casePaused: a healthy pause point that is already paused moves on
\* to Ready by itself
casePaused_ResumesWhenHeld(d, sa, t) ==
    IF Drifted(d, sa) THEN fixDeploymentReplicas(d, sa, t)
    ELSE IF d.statusReplicas # d.replicas THEN Waiting(d, sa)
    ELSE IF d.statusReplicas = d.availableReplicas
         THEN IF d.paused
              THEN Persist(d, sa, [sa EXCEPT !.CurrentStepState = FinishedState(sa),
                                             !.LastUpdateTime = t], "available", d.paused)
              ELSE Persist(d, sa, [sa EXCEPT !.LastUpdateTime = t], "available", TRUE)
    ELSE IF BeforeDeadline(sa, t)
         THEN NoPatch(d, sa.CurrentStepState, "converging", RequeueSeconds, "nil")
    ELSE IF OverTolerance(d, sa)
         THEN Persist(d, sa, [sa EXCEPT !.CurrentStepState = StepStateTimeout,
                                        !.LastUpdateTime = t], "timeout", d.paused)
    ELSE IF d.paused THEN NoPatch(d, sa.CurrentStepState, "held", 0, "nil")
    ELSE Persist(d, sa, [sa EXCEPT !.LastUpdateTime = t], "tolerated", TRUE)

\* mutant of casePaused: past the deadline a tolerated rollout finishes the
\* step as it does in Upgrade
casePaused_ToleratedFinishes(d, sa, t) ==
    IF Drifted(d, sa) THEN fixDeploymentReplicas(d, sa, t)
    ELSE IF d.statusReplicas # d.replicas THEN Waiting(d, sa)
    ELSE IF d.statusReplicas = d.availableReplicas
         THEN IF d.paused THEN NoPatch(d, sa.CurrentStepState, "held", 0, "nil")
              ELSE Persist(d, sa, [sa EXCEPT !.LastUpdateTime = t], "available", TRUE)
    ELSE IF BeforeDeadline(sa, t)
         THEN NoPatch(d, sa.CurrentStepState, "converging", RequeueSeconds, "nil")
    ELSE IF OverTolerance(d, sa)
         THEN Persist(d, sa, [sa EXCEPT !.CurrentStepState = StepStateTimeout,
                                        !.LastUpdateTime = t], "timeout", d.paused)
    ELSE Persist(d, sa, [sa EXCEPT !.CurrentStepState = FinishedState(sa),
                                   !.LastUpdateTime = t], "tolerated", d.paused)

casePaused(d, sa, t) ==
    IF Drifted(d, sa) THEN fixDeploymentReplicas(d, sa, t)
    ELSE IF d.statusReplicas # d.replicas THEN Waiting(d, sa)
    ELSE IF d.statusReplicas = d.availableReplicas
         THEN IF d.paused THEN NoPatch(d, sa.CurrentStepState, "held", 0, "nil")
              ELSE Persist(d, sa, [sa EXCEPT !.LastUpdateTime = t], "available", TRUE)
    ELSE IF BeforeDeadline(sa, t)
         THEN NoPatch(d, sa.CurrentStepState, "converging", RequeueSeconds, "nil")
    ELSE IF OverTolerance(d, sa)
         THEN Persist(d, sa, [sa EXCEPT !.CurrentStepState = StepStateTimeout,
                                        !.LastUpdateTime = t], "timeout", d.paused)
    ELSE IF d.paused THEN NoPatch(d, sa.CurrentStepState, "held", 0, "nil")
    ELSE Persist(d, sa, [sa EXCEPT !.LastUpdateTime = t], "tolerated", TRUE)

\* mutant of caseReady: the advance forgets to set spec.replicas to the next step
caseReady_StaleReplicas(d, sa, t) ==
    IF Drifted(d, sa) THEN fixDeploymentReplicas(d, sa, t)
    ELSE IF d.paused THEN Unpause(d, sa)
    ELSE IF sa.CurrentStepIndex = Len(sa.Steps)
         THEN Persist(d, sa, [sa EXCEPT !.CurrentStepState = StepStateCompleted,
                                        !.LastUpdateTime = t], "last", d.paused)
    ELSE LET nextStepIndex == sa.CurrentStepIndex + 1
             nextStep == sa.Steps[nextStepIndex]
             sa2 == [sa EXCEPT !.CurrentStepIndex = nextStepIndex,
                               !.CurrentStepState = StepTargetState(nextStep),
                               !.LastUpdateTime = t]
         IN  WithPatch(sa.CurrentStepState, "advance", SetScaleAnnotation(d.annotations, sa2),
                       d.replicas, d.paused, 0, 0, "patch")

\* mutant of caseReady: the last step is not handled, the index runs past the plan
caseReady_NoLastCheck(d, sa, t) ==
    IF Drifted(d, sa) THEN fixDeploymentReplicas(d, sa, t)
    ELSE IF d.paused THEN Unpause(d, sa)
    ELSE LET nextStepIndex == sa.CurrentStepIndex + 1
             nextStep == IF nextStepIndex <= Len(sa.Steps) THEN sa.Steps[nextStepIndex]
                         ELSE sa.Steps[sa.CurrentStepIndex]
             sa2 == [sa EXCEPT !.CurrentStepIndex = nextStepIndex,
                               !.CurrentStepState = StepTargetState(nextStep),
                               !.LastUpdateTime = t]
         IN  WithPatch(sa.CurrentStepState, "advance", SetScaleAnnotation(d.annotations, sa2),
                       nextStep.Replicas, d.paused, 0, 0, "patch")

\* mutant of caseReady: the advance waits for the previous rollout's status
caseReady_WaitsForStatus(d, sa, t) ==
    IF Drifted(d, sa) THEN fixDeploymentReplicas(d, sa, t)
    ELSE IF d.paused THEN Unpause(d, sa)
    ELSE IF d.statusReplicas # d.replicas THEN Waiting(d, sa)
    ELSE IF sa.CurrentStepIndex = Len(sa.Steps)
         THEN Persist(d, sa, [sa EXCEPT !.CurrentStepState = StepStateCompleted,
                                        !.LastUpdateTime = t], "last", d.paused)
    ELSE LET nextStepIndex == sa.CurrentStepIndex + 1
             nextStep == sa.Steps[nextStepIndex]
             sa2 == [sa EXCEPT !.CurrentStepIndex = nextStepIndex,
                               !.CurrentStepState = StepTargetState(nextStep),
                               !.LastUpdateTime = t]
         IN  WithPatch(sa.CurrentStepState, "advance", SetScaleAnnotation(d.annotations, sa2),
                       nextStep.Replicas, d.paused, 0, 0, "patch")

\* mutant of caseReady: the step advance does not stamp LastUpdateTime
caseReady_NoStamp(d, sa, t) ==
    IF Drifted(d, sa) THEN fixDeploymentReplicas(d, sa, t)
    ELSE IF d.paused THEN Unpause(d, sa)
    ELSE IF sa.CurrentStepIndex = Len(sa.Steps)
         THEN Persist(d, sa, [sa EXCEPT !.CurrentStepState = StepStateCompleted,
                                        !.LastUpdateTime = t], "last", d.paused)
    ELSE LET nextStepIndex == sa.CurrentStepIndex + 1
             nextStep == sa.Steps[nextStepIndex]
             sa2 == [sa EXCEPT !.CurrentStepIndex = nextStepIndex,
                               !.CurrentStepState = StepTargetState(nextStep)]
         IN  WithPatch(sa.CurrentStepState, "advance", SetScaleAnnotation(d.annotations, sa2),
                       nextStep.Replicas, d.paused, 0, 0, "patch")

\* mutant of caseReady: the advance jumps over a step when two or more remain
caseReady_SkipsStep(d, sa, t) ==
    IF Drifted(d, sa) THEN fixDeploymentReplicas(d, sa, t)
    ELSE IF d.paused THEN Unpause(d, sa)
    ELSE IF sa.CurrentStepIndex = Len(sa.Steps)
         THEN Persist(d, sa, [sa EXCEPT !.CurrentStepState = StepStateCompleted,
                                        !.LastUpdateTime = t], "last", d.paused)
    ELSE LET nextStepIndex == IF sa.CurrentStepIndex + 2 <= Len(sa.Steps)
                              THEN sa.CurrentStepIndex + 2 ELSE sa.CurrentStepIndex + 1
             nextStep == sa.Steps[nextStepIndex]
             sa2 == [sa EXCEPT !.CurrentStepIndex = nextStepIndex,
                               !.CurrentStepState = StepTargetState(nextStep),
                               !.LastUpdateTime = t]
         IN  WithPatch(sa.CurrentStepState, "advance", SetScaleAnnotation(d.annotations, sa2),
                       nextStep.Replicas, d.paused, 0, 0, "patch")

\* mutant of caseReady: the last step asks for another pass after Completed
caseReady_LastRetries(d, sa, t) ==
    IF Drifted(d, sa) THEN fixDeploymentReplicas(d, sa, t)
    ELSE IF d.paused THEN Unpause(d, sa)
    ELSE IF sa.CurrentStepIndex = Len(sa.Steps)
         THEN WithPatch(sa.CurrentStepState, "last",
                        SetScaleAnnotation(d.annotations,
                                           [sa EXCEPT !.CurrentStepState = StepStateCompleted,
                                                      !.LastUpdateTime = t]),
                        d.replicas, d.paused, RequeueSeconds, RequeueSeconds, "patch")
    ELSE LET nextStepIndex == sa.CurrentStepIndex + 1
             nextStep == sa.Steps[nextStepIndex]
             sa2 == [sa EXCEPT !.CurrentStepIndex = nextStepIndex,
                               !.CurrentStepState = StepTargetState(nextStep),
                               !.LastUpdateTime = t]
         IN  WithPatch(sa.CurrentStepState, "advance", SetScaleAnnotation(d.annotations, sa2),
                       nextStep.Replicas, d.paused, 0, 0, "patch")

caseReady(d, sa, t) ==
    IF Drifted(d, sa) THEN fixDeploymentReplicas(d, sa, t)
    ELSE IF d.paused THEN Unpause(d, sa)
    ELSE IF sa.CurrentStepIndex = Len(sa.Steps)
         THEN Persist(d, sa, [sa EXCEPT !.CurrentStepState = StepStateCompleted,
                                        !.LastUpdateTime = t], "last", d.paused)
    ELSE LET nextStepIndex == sa.CurrentStepIndex + 1
             nextStep == sa.Steps[nextStepIndex]
             sa2 == [sa EXCEPT !.CurrentStepIndex = nextStepIndex,
                               !.CurrentStepState = StepTargetState(nextStep),
                               !.LastUpdateTime = t]
         IN  WithPatch(sa.CurrentStepState, "advance", SetScaleAnnotation(d.annotations, sa2),
                       nextStep.Replicas, d.paused, 0, 0, "patch")

\* mutant of caseCompleted: a finished plan keeps asking for another pass
caseCompleted_Requeues(d, sa, t) ==
    IF Drifted(d, sa) THEN fixDeploymentReplicas(d, sa, t)
    ELSE NoPatch(d, sa.CurrentStepState, "success", RequeueSeconds, "nil")

caseCompleted(d, sa, t) ==
    IF Drifted(d, sa) THEN fixDeploymentReplicas(d, sa, t)
    ELSE NoPatch(d, sa.CurrentStepState, "success", 0, "nil")

\* mutant of caseTimeout: a timed-out plan is left alone
caseTimeout_NoFreeze(d, sa, t) ==
    IF Drifted(d, sa) THEN fixDeploymentReplicas(d, sa, t)
    ELSE NoPatch(d, sa.CurrentStepState, "freeze", 0, "nil")

caseTimeout(d, sa, t) ==
    IF Drifted(d, sa) THEN fixDeploymentReplicas(d, sa, t)
    ELSE WithPatch(sa.CurrentStepState, "freeze", d.annotations, d.replicas, TRUE, 0, 0, "patch")

HandledStates ==
    {StepStateUpgrade, StepStatePaused, StepStateReady, StepStateCompleted, StepStateTimeout}

\* Steps[CurrentStepIndex-1] is inside the slice
IndexInRange(sa) == sa.CurrentStepIndex >= 1 /\ sa.CurrentStepIndex <= Len(sa.Steps)

\* the switch of Reconcile on a decoded plan; r is ReadScaleAnnotation's return
Dispatch(d, r, t) ==
    IF r.err \in {ErrorScaleAnnotationParseSteps,
                  ErrorScaleAnnotationParseCurrentStepIndex,
                  ErrorScaleAnnotationParseCurrentStepState}
    THEN NoPatch(d, "", "notmanaged", 0, "nil")
    ELSE IF r.err # "nil" THEN NoPatch(d, "", "malformed", 0, "parse")
    ELSE IF d.replicasNil THEN NoPatch(d, r.sa.CurrentStepState, "panic", 0, "panic")
    ELSE IF r.sa.CurrentStepState \notin HandledStates
         THEN NoPatch(d, r.sa.CurrentStepState, "unhandled", 0, "nil")
    ELSE IF ~IndexInRange(r.sa) THEN NoPatch(d, r.sa.CurrentStepState, "panic", 0, "panic")
    ELSE CASE r.sa.CurrentStepState = StepStateUpgrade -> caseUpgrade(d, r.sa, t)
           [] r.sa.CurrentStepState = StepStatePaused -> casePaused(d, r.sa, t)
           [] r.sa.CurrentStepState = StepStateReady -> caseReady(d, r.sa, t)
           [] r.sa.CurrentStepState = StepStateCompleted -> caseCompleted(d, r.sa, t)
           [] r.sa.CurrentStepState = StepStateTimeout -> caseTimeout(d, r.sa, t)

\* the body of Reconcile after r.Get, on the fetched deployment d at time t
\* (the decoded plan is bound once, as a value)
Decide(d, t) ==
    CHOOSE o \in {Dispatch(d, r, t) : r \in {ReadScaleAnnotation(d.annotations, t)}} : TRUE

\* ------------------------------------------------------------------ system
VARIABLES
    annotations,          \* deployment.Annotations in the API server
    replicas,             \* *deployment.Spec.Replicas
    replicasNil,          \* deployment.Spec.Replicas == nil
    paused,               \* deployment.Spec.Paused
    statusReplicas,       \* deployment.Status.Replicas
    availableReplicas,    \* deployment.Status.AvailableReplicas
    unavailableReplicas,  \* deployment.Status.UnavailableReplicas
    now,                  \* time.Now(), in seconds
    result,               \* what the pass that just ran returned; NoResult otherwise
    terminal,             \* terminal state the engine persisted since the last plan write
    pass,                 \* the pass in flight between its fetch and its patch, if any
    history,              \* what happened to the plan since it was last written (SpecTracked)
    manager               \* the AnnotationScaleManager and the goroutines that call it (SpecStop)

vars == <<annotations, replicas, replicasNil, paused, statusReplicas, availableReplicas,
          unavailableReplicas, now, result, terminal, pass, history, manager>>

\* the goroutines that call Stop and Stopping on one manager
Goroutines == 1..MaxCallers

\* what the latest Stopping call to return reported: value is what it returned,
\* after says that a Stop call had returned before it was called, early that no
\* Stop call had been made when it returned
NoObserved == [valid |-> FALSE, value |-> FALSE, after |-> FALSE, early |-> FALSE]

\* the manager as NewAnnotationScaleManager returns it: stopped and closes (how
\* often close(stopCh) ran) are its fields, mutex the goroutine that holds
\* m.mutex (0 when free), started and cancelled the goroutine that Start
\* leaves listening on stopCh; pc is where each goroutine is, value what its
\* Stopping call read, after whether a Stop had returned when it called
\* Stopping, stopCalled whether a Stop call was ever made, stopReturned the
\* goroutines whose Stop call has returned
NoManager ==
    [stopped |-> FALSE, closes |-> 0, mutex |-> 0,
     started |-> FALSE, cancelled |-> FALSE,
     pc |-> [g \in Goroutines |-> "idle"],
     value |-> [g \in Goroutines |-> FALSE],
     after |-> [g \in Goroutines |-> FALSE],
     stopCalled |-> FALSE, stopReturned |-> {}, observed |-> NoObserved]

\* the zero value of a deployment
NoDeployment ==
    [annotations |-> <<>>, replicas |-> 0, replicasNil |-> FALSE, paused |-> FALSE,
     statusReplicas |-> 0, availableReplicas |-> 0, unavailableReplicas |-> 0]

\* History of the plan, kept only when on (SpecTracked): stage counts the applied
\* patches since release rewrote a held pause point (at step index) to Ready, as
\* long as no other actor wrote in between; waited says that the latest pass
\* returned the waiting error, waitedSince and waitedAt when the first and the
\* last pass of that unbroken run of waiting passes did.
NoHistory ==
    [on |-> FALSE, stage |-> 0, index |-> 0, waited |-> FALSE, waitedSince |-> 0, waitedAt |-> 0]

\* obs is the deployment the pass fetched, state the plan state it dispatched on,
\* branch the path it took, patch whether it called patchDeployment, patched
\* whether that patch was applied, history the history the pass started from
NoResult ==
    [obs |-> NoDeployment, state |-> "", branch |-> "none", patch |-> FALSE,
     patched |-> FALSE, requeueAfter |-> 0, err |-> "nil", history |-> NoHistory]

NoTerminal == [state |-> "none", index |-> 0]

\* no pass is between its fetch and its patch
NoPass == [active |-> FALSE, d |-> NoDeployment]

\* the plans an initiator writes (example/main.go scaleUp and scaleDown, scaled
\* down): one with a stop point in the middle, not monotonic and ending at zero
\* replicas, one that ends on a stop point
ScaleUpSteps == <<Step(1, FALSE), Step(2, TRUE), Step(0, FALSE)>>
ScaleDownSteps == <<Step(2, FALSE), Step(1, TRUE)>>
Plans == {ScaleUpSteps, ScaleDownSteps}

\* the history after a pass that took branch `branch` at time t; applied says
\* that its patch was applied
HistoryAfterPass(h, branch, applied, t) ==
    IF ~h.on THEN h
    ELSE [on |-> TRUE,
          stage |-> IF applied THEN (IF h.stage = 1 THEN 2 ELSE 0) ELSE h.stage,
          index |-> IF applied /\ h.stage # 1 THEN 0 ELSE h.index,
          waited |-> branch = "waiting",
          waitedSince |-> IF branch # "waiting" THEN 0
                          ELSE IF h.waited THEN h.waitedSince ELSE t,
          waitedAt |-> IF branch = "waiting" THEN t ELSE 0]

\* the history after release; held says that it found the plan at a pause point
\* (state Paused, pause flag set, spec.replicas at the step's replicas)
HistoryAfterRelease(h, held, index) ==
    IF ~h.on THEN h
    ELSE [on |-> TRUE, stage |-> IF held THEN 1 ELSE 0, index |-> IF held THEN index ELSE 0,
          waited |-> FALSE, waitedSince |-> 0, waitedAt |-> 0]

\* the history after an initiator wrote a new plan
HistoryAfterPlan(h) == [NoHistory EXCEPT !.on = h.on]

\* the history after another actor wrote spec.replicas or spec.paused
HistoryAfterSpec(h) == [h EXCEPT !.stage = 0, !.index = 0]

\* r.Get: the deployment as stored
Deployment ==
    [annotations |-> annotations, replicas |-> replicas, replicasNil |-> replicasNil,
     paused |-> paused, statusReplicas |-> statusReplicas, availableReplicas |-> availableReplicas,
     unavailableReplicas |-> unavailableReplicas]

\* the pass's own copy of the deployment it fetched, with what it decided set on it
Modified(d, o) ==
    [d EXCEPT !.annotations = o.annotations, !.replicas = o.replicas, !.paused = o.paused]

\* mutant of patchDeployment: the pass's copy is written back whole (an Update)
patchDeployment_Update(latest, deployment) == deployment

\* mutant of patchDeployment: only the annotations reach the store, as if the
\* spec fields went in a second call that was never made
patchDeployment_AnnotationsOnly(latest, deployment) ==
    [latest EXCEPT !.annotations = deployment.annotations]

\* patchDeployment: the latest object with exactly three fields taken from the
\* pass's copy (annotations, the Spec.Replicas pointer, Spec.Paused)
patchDeployment(latest, deployment) ==
    [latest EXCEPT !.annotations = deployment.annotations,
                   !.replicas = deployment.replicas,
                   !.replicasNil = deployment.replicasNil,
                   !.paused = deployment.paused]

\* the persisted plan, as the engine would decode it
Plan == ReadScaleAnnotation(annotations, now)
Managed == Plan.err = "nil"
CurrentStep == Plan.sa.Steps[Plan.sa.CurrentStepIndex]

Init ==
    /\ annotations = <<>>
    /\ replicas = 1
    /\ replicasNil = FALSE
    /\ paused = FALSE
    /\ statusReplicas = 1
    /\ availableReplicas = 1
    /\ unavailableReplicas = 0
    /\ now = 0
    /\ result = NoResult
    /\ terminal = NoTerminal
    /\ pass = NoPass
    /\ manager = NoManager
    /\ history = NoHistory

\* One reconcile pass: fetch, decide, and (when a mutation is decided)
\* re-fetch and patch; patchOk is whether that re-fetch and patch succeed.
Reconcile(patchOk) ==
    \E d \in {Deployment} : \E o \in {Decide(d, now)} :
    \E latest \in {IF o.patch /\ patchOk THEN patchDeployment(d, Modified(d, o)) ELSE d} :
    \E written \in {ReadScaleAnnotation(latest.annotations, now).sa} :
        /\ patchOk \/ o.patch
        /\ annotations' = latest.annotations
        /\ replicas' = latest.replicas
        /\ replicasNil' = latest.replicasNil
        /\ paused' = latest.paused
        /\ result' = [obs |-> d, state |-> o.state, branch |-> o.branch,
                      patch |-> o.patch, patched |-> o.patch /\ patchOk,
                      requeueAfter |-> IF patchOk THEN o.requeueAfter ELSE o.failRequeueAfter,
                      err |-> IF patchOk THEN o.err ELSE o.failErr,
                      history |-> history]
        /\ UNCHANGED manager
        /\ history' = HistoryAfterPass(history, o.branch, o.patch /\ patchOk, now)
        /\ terminal' = IF o.patch /\ patchOk
                            /\ written.CurrentStepState \in {StepStateCompleted, StepStateTimeout}
                       THEN [state |-> written.CurrentStepState,
                             index |-> written.CurrentStepIndex]
                       ELSE terminal
        /\ UNCHANGED <<statusReplicas, availableReplicas, unavailableReplicas, now, pass>>

\* the clock advances
Tick ==
    /\ now < MaxTime
    /\ now' = now + 1
    /\ result' = NoResult
    /\ UNCHANGED <<annotations, replicas, paused, statusReplicas, availableReplicas,
                   unavailableReplicas, terminal>>
    /\ UNCHANGED <<replicasNil, pass>>
    /\ UNCHANGED manager
    /\ UNCHANGED history

\* an initiator starts a rollout: a fresh plan at step 1 in state Ready
WritePlan(steps) ==
    /\ annotations' = SetScaleAnnotation(annotations,
            [NewScaleAnnotation(now) EXCEPT !.Steps = steps, !.CurrentStepIndex = 1,
                !.CurrentStepState = StepStateReady,
                !.MaxWaitAvailableSecond = PlanMaxWaitAvailableSecond])
    /\ result' = NoResult
    /\ terminal' = NoTerminal
    /\ UNCHANGED <<replicas, paused, statusReplicas, availableReplicas,
                   unavailableReplicas, now>>
    /\ UNCHANGED <<replicasNil, pass>>
    /\ UNCHANGED manager
    /\ history' = HistoryAfterPlan(history)

\* example/main.go release: continue from the stop point by rewriting the state
release ==
    \E r \in {Plan} :
    /\ r.err = "nil"
    /\ r.sa.CurrentStepState # StepStateReady
    /\ annotations' = SetScaleAnnotation(annotations,
            [r.sa EXCEPT !.CurrentStepState = StepStateReady])
    /\ result' = NoResult
    /\ terminal' = NoTerminal
    /\ UNCHANGED <<replicas, paused, statusReplicas, availableReplicas,
                   unavailableReplicas, now>>
    /\ UNCHANGED <<replicasNil, pass>>
    /\ UNCHANGED manager
    /\ history' = HistoryAfterRelease(history,
            /\ r.sa.CurrentStepState = StepStatePaused
            /\ paused /\ ~replicasNil
            /\ IndexInRange(r.sa)
            /\ replicas = r.sa.Steps[r.sa.CurrentStepIndex].Replicas,
            r.sa.CurrentStepIndex)

\* another actor sets spec.replicas (drift)
ScaleExternally(n) ==
    /\ n # replicas
    /\ replicas' = n
    /\ result' = NoResult
    /\ UNCHANGED <<annotations, paused, statusReplicas, availableReplicas,
                   unavailableReplicas, now, terminal>>
    /\ UNCHANGED <<replicasNil, pass>>
    /\ UNCHANGED manager
    /\ history' = HistoryAfterSpec(history)

\* another actor flips spec.paused
PauseExternally ==
    /\ paused' = ~paused
    /\ result' = NoResult
    /\ UNCHANGED <<annotations, replicas, statusReplicas, availableReplicas,
                   unavailableReplicas, now, terminal>>
    /\ UNCHANGED <<replicasNil, pass>>
    /\ UNCHANGED manager
    /\ history' = HistoryAfterSpec(history)

\* the deployment controller reports a new status.replicas
SetStatusReplicas(total) ==
    /\ total # statusReplicas
    /\ availableReplicas <= total
    /\ statusReplicas' = total
    /\ result' = NoResult
    /\ UNCHANGED <<annotations, replicas, paused, availableReplicas, unavailableReplicas,
                   now, terminal>>
    /\ UNCHANGED <<replicasNil, pass>>
    /\ UNCHANGED manager
    /\ UNCHANGED history

\* the deployment controller reports a new status.availableReplicas
SetAvailableReplicas(available) ==
    /\ available # availableReplicas
    /\ available <= statusReplicas
    /\ availableReplicas' = available
    /\ result' = NoResult
    /\ UNCHANGED <<annotations, replicas, paused, statusReplicas, unavailableReplicas,
                   now, terminal>>
    /\ UNCHANGED <<replicasNil, pass>>
    /\ UNCHANGED manager
    /\ UNCHANGED history

\* the deployment controller reports a new status.unavailableReplicas
SetUnavailableReplicas(unavailable) ==
    /\ unavailable # unavailableReplicas
    /\ unavailableReplicas' = unavailable
    /\ result' = NoResult
    /\ UNCHANGED <<annotations, replicas, paused, statusReplicas, availableReplicas,
                   now, terminal>>
    /\ UNCHANGED <<replicasNil, pass>>
    /\ UNCHANGED manager
    /\ UNCHANGED history

Next ==
    \/ \E patchOk \in BOOLEAN : Reconcile(patchOk)
    \/ Tick
    \/ \E steps \in Plans : WritePlan(steps)
    \/ release
    \/ \E n \in 0..MaxReplicas : ScaleExternally(n)
    \/ PauseExternally
    \/ \E total \in 0..MaxReplicas : SetStatusReplicas(total)
    \/ \E available \in 0..MaxReplicas : SetAvailableReplicas(available)
    \/ \E unavailable \in 0..MaxUnavailableObserved : SetUnavailableReplicas(unavailable)

Spec == Init /\ [][Next]_vars

\* ------------------------------------------------ the same, with history
\* SpecTracked is Spec with the history of the plan switched on.
InitTracked ==
    /\ annotations = <<>>
    /\ replicas = 1
    /\ replicasNil = FALSE
    /\ paused = FALSE
    /\ statusReplicas = 1
    /\ availableReplicas = 1
    /\ unavailableReplicas = 0
    /\ now = 0
    /\ result = NoResult
    /\ terminal = NoTerminal
    /\ pass = NoPass
    /\ manager = NoManager
    /\ history = [NoHistory EXCEPT !.on = TRUE]

SpecTracked == InitTracked /\ [][Next]_vars

\* ------------------------------------------- any stored plan, then passes
\* The annotations are ordinary metadata: any client can write, garble or drop
\* any key.  SpecStored starts from the deployments such writers can leave
\* behind and runs reconcile passes on them.

\* the keys SetScaleAnnotation writes
OwnedKeys ==
    {"steps", "current_step_index", "current_step_state", "message",
     "max_wait_available_time", "max_unavailable_replicas", "last_update_time"}

\* the keys ReadScaleAnnotation parses (json.Unmarshal, strconv.ParseInt)
EncodedKeys ==
    {"steps", "current_step_index", "max_wait_available_time",
     "max_unavailable_replicas", "last_update_time"}

\* a value of key k that its parser rejects
Garbled(k) == IF k = "steps" THEN InvalidJSON ELSE <<"1", "x">>

\* the bag without key k
Remove(m, k) == [x \in (DOMAIN m) \ {k} |-> m[x]]

\* the bag with the value of key k, if present, replaced by one that does not parse
Garble(m, k) == IF k \in DOMAIN m THEN Put(m, k, Garbled(k)) ELSE m

\* state values that are present but match no case of Reconcile's switch: the
\* declared StepStateError and the empty string
UnhandledStates == {StepStateError, ""}

\* plans a writer can store: the steps may be empty, the index may lie on
\* either side of the steps, and the state may be any string
StoredPlans ==
    {[NewScaleAnnotation(0) EXCEPT !.Steps = steps, !.CurrentStepIndex = index,
                                   !.CurrentStepState = state,
                                   !.MaxWaitAvailableSecond = PlanMaxWaitAvailableSecond] :
        steps \in {ScaleUpSteps, <<>>},
        index \in 0..(Len(ScaleUpSteps) + 1),
        state \in HandledStates \cup UnhandledStates}

\* the bags of those plans, with at most one key missing and one key garbled
StoredBags ==
    {Garble(Remove(SetScaleAnnotation(<<>>, sa), gone), bad) :
        sa \in StoredPlans,
        gone \in OwnedKeys \cup {"none"},
        bad \in EncodedKeys \cup {"none"}}

InitStored ==
    /\ annotations \in StoredBags
    /\ replicasNil \in BOOLEAN
    /\ replicas \in (IF replicasNil THEN {0} ELSE 0..MaxReplicas)
    /\ paused \in BOOLEAN
    /\ statusReplicas = 1
    /\ availableReplicas = 1
    /\ unavailableReplicas = 0
    /\ now = 0
    /\ result = NoResult
    /\ terminal = NoTerminal
    /\ pass = NoPass
    /\ manager = NoManager
    /\ history = NoHistory

NextStored == \E patchOk \in BOOLEAN : Reconcile(patchOk)

SpecStored == InitStored /\ [][NextStored]_vars

\* ----------------------------------------------------- the codec on bags
\* SpecCodec applies SetScaleAnnotation to metadata bags drawn from a bounded
\* set: bags that decode (each key in any of its spellings), the stored bags
\* above, and the empty bag, each with and without a key of another owner.

\* an annotation the plan does not own
ForeignBag == [k \in {"owner"} |-> "team-a"]

\* the bag b on top of the bag f
Merge(f, b) == [x \in (DOMAIN f) \cup (DOMAIN b) |-> IF x \in DOMAIN b THEN b[x] ELSE f[x]]

\* the same steps with every field written out, zero values included
SpelledOutSteps(steps) ==
    [kind |-> "array",
     elems |-> [i \in 1..Len(steps) |-> [replicas |-> steps[i].Replicas, pause |-> steps[i].Pause]]]

\* key k in another spelling that decodes to the same value
Respelled(m, k) ==
    IF k = "steps" THEN Put(m, k, SpelledOutSteps(UnmarshalSteps(m[k]).val))
    ELSE Put(m, k, <<"+">> \o m[k])

\* key k as SetScaleAnnotation writes it, in another spelling, or not at all
Spell(m, k, how) ==
    CASE how = "canonical" -> m
      [] how = "respelled" -> Respelled(m, k)
      [] how = "absent" -> Remove(m, k)

CodecPlans ==
    {[NewScaleAnnotation(0) EXCEPT !.Steps = ScaleUpSteps, !.CurrentStepIndex = 2,
                                   !.CurrentStepState = StepStatePaused,
                                   !.MaxWaitAvailableSecond = PlanMaxWaitAvailableSecond],
     [NewScaleAnnotation(1) EXCEPT !.Steps = ScaleDownSteps, !.CurrentStepIndex = 1,
                                   !.CurrentStepState = StepStateReady,
                                   !.Message = "canary"]}

\* the plans SetDeploymentScaleAnnotation is given: those above and one made of
\* zero values (a single step of 0 replicas without pause, index 0, empty
\* state and message, no budget and no tolerance)
EncodedPlans ==
    CodecPlans \cup
    {[NewScaleAnnotation(0) EXCEPT !.Steps = <<Step(0, FALSE)>>,
                                   !.MaxWaitAvailableSecond = 0,
                                   !.MaxUnavailableReplicas = 0]}

\* bags that decode to a plan
DecodableBags ==
    {Spell(Spell(Spell(Spell(Spell(Spell(Merge(f, SetScaleAnnotation(<<>>, sa)),
        "steps", h1), "current_step_index", h2), "message", h3),
        "max_wait_available_time", h4), "max_unavailable_replicas", h5),
        "last_update_time", h6) :
        f \in {<<>>, ForeignBag}, sa \in CodecPlans,
        h1 \in {"canonical", "respelled"}, h2 \in {"canonical", "respelled"},
        h3 \in {"canonical", "absent"},
        h4 \in {"canonical", "respelled", "absent"},
        h5 \in {"canonical", "respelled", "absent"},
        h6 \in {"canonical", "respelled", "absent"}}

CodecBags ==
    DecodableBags \cup {Merge(f, b) : f \in {<<>>, ForeignBag}, b \in StoredBags \cup {<<>>}}

InitCodec ==
    /\ annotations \in CodecBags
    /\ replicas = 1
    /\ replicasNil = FALSE
    /\ paused = FALSE
    /\ statusReplicas = 1
    /\ availableReplicas = 1
    /\ unavailableReplicas = 0
    /\ now \in 0..MaxTime
    /\ result = NoResult
    /\ terminal = NoTerminal
    /\ pass = NoPass
    /\ manager = NoManager
    /\ history = NoHistory

\* SetDeploymentScaleAnnotation: the plan sa encoded onto the stored bag
SetDeploymentScaleAnnotation(sa) ==
    /\ annotations' = SetScaleAnnotation(annotations, sa)
    /\ result' = [NoResult EXCEPT !.obs = Deployment, !.branch = "encode"]
    /\ UNCHANGED <<replicas, replicasNil, paused, statusReplicas, availableReplicas,
                   unavailableReplicas, now, terminal, pass, history, manager>>

\* the stored bag decoded and the decoded plan encoded back onto it
RoundTrip ==
    \E r \in {Plan} :
    /\ r.err = "nil"
    /\ annotations' = SetScaleAnnotation(annotations, r.sa)
    /\ result' = [NoResult EXCEPT !.obs = Deployment, !.branch = "roundtrip"]
    /\ UNCHANGED <<replicas, replicasNil, paused, statusReplicas, availableReplicas,
                   unavailableReplicas, now, terminal, pass, history, manager>>

NextCodec ==
    \/ \E sa \in EncodedPlans : SetDeploymentScaleAnnotation(sa)
    \/ RoundTrip

SpecCodec == InitCodec /\ [][NextCodec]_vars

\* ------------------------------------------- a pass that is not atomic
\* SpecRace splits the pass at its two reads of the API server: Fetch is the
\* r.Get of Reconcile, Finish is everything after it on the fetched copy, with
\* the r.Get and the Patch of patchDeployment on the deployment as stored by
\* then.  Other actors write between the two.

Fetch ==
    /\ ~pass.active
    /\ pass' = [active |-> TRUE, d |-> Deployment]
    /\ result' = NoResult
    /\ UNCHANGED <<annotations, replicas, replicasNil, paused, statusReplicas,
                   availableReplicas, unavailableReplicas, now, terminal, history, manager>>

Finish(patchOk) ==
    /\ pass.active
    /\ \E d \in {pass.d} : \E o \in {Decide(d, now)} :
       \E latest \in {IF o.patch /\ patchOk THEN patchDeployment(Deployment, Modified(d, o))
                      ELSE Deployment} :
       \E written \in {ReadScaleAnnotation(latest.annotations, now).sa} :
        /\ patchOk \/ o.patch
        /\ annotations' = latest.annotations
        /\ replicas' = latest.replicas
        /\ replicasNil' = latest.replicasNil
        /\ paused' = latest.paused
        /\ statusReplicas' = latest.statusReplicas
        /\ availableReplicas' = latest.availableReplicas
        /\ unavailableReplicas' = latest.unavailableReplicas
        /\ result' = [obs |-> d, state |-> o.state, branch |-> o.branch,
                      patch |-> o.patch, patched |-> o.patch /\ patchOk,
                      requeueAfter |-> IF patchOk THEN o.requeueAfter ELSE o.failRequeueAfter,
                      err |-> IF patchOk THEN o.err ELSE o.failErr,
                      history |-> history]
        /\ UNCHANGED manager
        /\ history' = HistoryAfterPass(history, o.branch, o.patch /\ patchOk, now)
        /\ terminal' = IF o.patch /\ patchOk
                            /\ written.CurrentStepState \in {StepStateCompleted, StepStateTimeout}
                       THEN [state |-> written.CurrentStepState,
                             index |-> written.CurrentStepIndex]
                       ELSE terminal
        /\ pass' = NoPass
        /\ UNCHANGED now

NextRace ==
    \/ Fetch
    \/ \E patchOk \in BOOLEAN : Finish(patchOk)
    \/ \E steps \in Plans : WritePlan(steps)
    \/ \E n \in 0..MaxReplicas : ScaleExternally(n)
    \/ PauseExternally
    \/ \E total \in 0..MaxReplicas : SetStatusReplicas(total)
    \/ \E available \in 0..MaxReplicas : SetAvailableReplicas(available)

SpecRace == Init /\ [][NextRace]_vars

\* ------------------------------------------------ a rollout left alone
\* SpecProgress starts from a plan without pause steps that an initiator has
\* just written (index 1, state Ready) on any deployment, and has no other
\* writer afterwards: only the engine, the clock and the workload's status.

\* plans without a stop point: one that is not monotonic and ends at zero
\* replicas, one that scales down
NoPauseSteps == {<<Step(1, FALSE), Step(2, FALSE), Step(0, FALSE)>>,
                 <<Step(2, FALSE), Step(1, FALSE)>>}

\* the workload reports total = available = desired and nothing unavailable
Settled ==
    /\ statusReplicas = replicas
    /\ availableReplicas = replicas
    /\ unavailableReplicas = 0

\* the controller's queue holds the deployment: an update of the deployment was
\* seen since the last pass, or the last pass changed it, asked for a retry or
\* returned an error
Triggered ==
    \/ result.branch = "none"
    \/ result.patched
    \/ result.requeueAfter > 0
    \/ result.err # "nil"

InitProgress ==
    /\ \E steps \in NoPauseSteps :
          annotations = SetScaleAnnotation(<<>>,
              [NewScaleAnnotation(0) EXCEPT !.Steps = steps, !.CurrentStepIndex = 1,
                  !.CurrentStepState = StepStateReady,
                  !.MaxWaitAvailableSecond = PlanMaxWaitAvailableSecond])
    /\ replicas \in 0..MaxReplicas
    /\ replicasNil = FALSE
    /\ paused \in BOOLEAN
    /\ statusReplicas \in 0..MaxReplicas
    /\ availableReplicas \in 0..statusReplicas
    /\ unavailableReplicas \in 0..MaxUnavailableObserved
    /\ now = 0
    /\ result = NoResult
    /\ terminal = NoTerminal
    /\ pass = NoPass
    /\ manager = NoManager
    /\ history = NoHistory

\* the controller takes the deployment off its queue and runs a pass
Invoke(patchOk) == Triggered /\ Reconcile(patchOk)

\* the rollout of the commanded replica count finishes
Settle ==
    /\ ~Settled
    /\ statusReplicas' = replicas
    /\ availableReplicas' = replicas
    /\ unavailableReplicas' = 0
    /\ result' = NoResult
    /\ UNCHANGED <<annotations, replicas, replicasNil, paused, now, terminal, pass, history, manager>>

\* until the rollout has finished the status counts move freely; once it has,
\* they stay until the engine commands another count
NextProgress ==
    \/ \E patchOk \in BOOLEAN : Invoke(patchOk)
    \/ Tick
    \/ Settle
    \/ \E total \in 0..MaxReplicas : ~Settled /\ SetStatusReplicas(total)
    \/ \E available \in 0..MaxReplicas : ~Settled /\ SetAvailableReplicas(available)
    \/ \E unavailable \in 0..MaxUnavailableObserved :
          ~Settled /\ SetUnavailableReplicas(unavailable)

\* a queued deployment is eventually reconciled with a patch that goes
\* through, and a rollout eventually finishes
SpecProgress ==
    /\ InitProgress
    /\ [][NextProgress]_vars
    /\ WF_vars(Invoke(TRUE))
    /\ WF_vars(Settle)

\* ------------------------------------------------ the manager's Stop
\* SpecStop is the AnnotationScaleManager under concurrent callers: every
\* goroutine calls Stop or Stopping again and again, one statement at a time,
\* and Start leaves a goroutine listening on the stop channel.
InitStop == Init

\* a step of the manager; the deployment is left alone
ManagerStep(m) ==
    /\ manager' = m
    /\ UNCHANGED <<annotations, replicas, replicasNil, paused, statusReplicas,
                   availableReplicas, unavailableReplicas, now, result, terminal,
                   pass, history>>

\* m.mutex.Lock() returns only while no goroutine holds the mutex
MutexFree_NoMutex(m) == TRUE

MutexFree(m) == m.mutex = 0

\* the test of Stop: if !m.stopped
ShouldClose(m) == ~m.stopped

\* Start spawns the goroutine that selects on ctx.Done() and m.stopCh
Start ==
    /\ ~manager.started
    /\ ManagerStep([manager EXCEPT !.started = TRUE])

\* that goroutine: case <-m.stopCh: cancel()
Cancel ==
    /\ manager.started /\ ~manager.cancelled
    /\ manager.closes > 0
    /\ ManagerStep([manager EXCEPT !.cancelled = TRUE])

\* goroutine g calls Stop
CallStop(g) ==
    /\ manager.pc[g] = "idle"
    /\ ManagerStep([manager EXCEPT !.pc[g] = "Stop.Lock", !.stopCalled = TRUE])

\* m.mutex.Lock() in Stop
StopLock(g) ==
    /\ manager.pc[g] = "Stop.Lock"
    /\ MutexFree(manager)
    /\ ManagerStep([manager EXCEPT !.mutex = g, !.pc[g] = "Stop.test"])

\* if !m.stopped
StopTest(g) ==
    /\ manager.pc[g] = "Stop.test"
    /\ ManagerStep([manager EXCEPT
           !.pc[g] = IF ShouldClose(manager) THEN "Stop.set" ELSE "Stop.Unlock"])

\* m.stopped = true
StopSet(g) ==
    /\ manager.pc[g] = "Stop.set"
    /\ ManagerStep([manager EXCEPT !.stopped = TRUE, !.pc[g] = "Stop.close"])

\* close(m.stopCh)
StopClose(g) ==
    /\ manager.pc[g] = "Stop.close"
    /\ ManagerStep([manager EXCEPT !.closes = @ + 1, !.pc[g] = "Stop.Unlock"])

\* the deferred m.mutex.Unlock(); Stop returns
StopUnlock(g) ==
    /\ manager.pc[g] = "Stop.Unlock"
    /\ ManagerStep([manager EXCEPT !.mutex = 0, !.pc[g] = "idle",
                                   !.stopReturned = @ \cup {g}])

\* goroutine g calls Stopping
CallStopping(g) ==
    /\ manager.pc[g] = "idle"
    /\ ManagerStep([manager EXCEPT !.pc[g] = "Stopping.Lock",
                                   !.after[g] = manager.stopReturned # {}])

\* m.mutex.Lock() in Stopping
StoppingLock(g) ==
    /\ manager.pc[g] = "Stopping.Lock"
    /\ MutexFree(manager)
    /\ ManagerStep([manager EXCEPT !.mutex = g, !.pc[g] = "Stopping.read"])

\* return m.stopped: the value is read under the mutex
StoppingRead(g) ==
    /\ manager.pc[g] = "Stopping.read"
    /\ ManagerStep([manager EXCEPT !.value[g] = manager.stopped,
                                   !.pc[g] = "Stopping.Unlock"])

\* the deferred m.mutex.Unlock(); Stopping returns the value it read
StoppingUnlock(g) ==
    /\ manager.pc[g] = "Stopping.Unlock"
    /\ ManagerStep([manager EXCEPT
           !.mutex = 0, !.pc[g] = "idle",
           !.observed = [valid |-> TRUE, value |-> manager.value[g],
                         after |-> manager.after[g],
                         early |-> ~manager.stopCalled]])

NextStop ==
    \/ Start
    \/ Cancel
    \/ \E g \in Goroutines : CallStop(g)
    \/ \E g \in Goroutines : StopLock(g)
    \/ \E g \in Goroutines : StopTest(g)
    \/ \E g \in Goroutines : StopSet(g)
    \/ \E g \in Goroutines : StopClose(g)
    \/ \E g \in Goroutines : StopUnlock(g)
    \/ \E g \in Goroutines : CallStopping(g)
    \/ \E g \in Goroutines : StoppingLock(g)
    \/ \E g \in Goroutines : StoppingRead(g)
    \/ \E g \in Goroutines : StoppingUnlock(g)

SpecStop == InitStop /\ [][NextStop]_vars

\* ------------------------------------------------------ claim vocabulary
\* a pass has just returned (every other step clears result)
Ran == result.branch # "none"

\* the plan as the pass that just returned decoded it from what it fetched
ObsRead == ReadScaleAnnotation(result.obs.annotations, now)

\* the pass dispatched on a valid plan in one of the five states
ObservedValid(r) ==
    /\ Ran
    /\ r.err = "nil"
    /\ r.sa.CurrentStepIndex >= 1 /\ r.sa.CurrentStepIndex <= Len(r.sa.Steps)
    /\ r.sa.CurrentStepState \in
         {"StepUpgrade", "StepPaused", "StepReady", "Completed", "Timeout"}

\* the step the observed plan points at
ObsStep(r) == r.sa.Steps[r.sa.CurrentStepIndex]

ObsDrift(r) == result.obs.replicas # ObsStep(r).Replicas

ObsLast(r) == r.sa.CurrentStepIndex = Len(r.sa.Steps)

ObsAtDeadline(r) == now >= r.sa.LastUpdateTime + r.sa.MaxWaitAvailableSecond

\* the persisted workload carries plan sa, desired-replica-count n, pause flag b
Stored(sa, n, b) ==
    \A p \in {Plan} : p.err = "nil" /\ p.sa = sa /\ replicas = n /\ paused = b

\* the persisted workload is exactly what the pass fetched
Untouched == Deployment = result.obs

\* the pass called patchDeployment; if the patch was applied the workload carries
\* (sa, n, b), and if it failed the workload is as fetched
Persisted(sa, n, b) ==
    /\ result.patch
    /\ IF result.patched THEN Stored(sa, n, b) ELSE Untouched

\* ------------------------------------------------------------------ claims

\* C1: drift gate. In each of the five states, a pass that observes
\* desired-replica-count # Steps[currentStepIndex-1].replicas persists desired =
\* that step's replicas, state Paused if the step pauses and Upgrade otherwise,
\* lastUpdateTime = now, the same index and pause flag (no state-specific logic),
\* and requests a retry after 5 seconds.
C1_DriftGate ==
    \A r \in {ObsRead} :
        (ObservedValid(r) /\ ObsDrift(r)) =>
            /\ Persisted([r.sa EXCEPT
                            !.CurrentStepState =
                                IF ObsStep(r).Pause THEN "StepPaused" ELSE "StepUpgrade",
                            !.LastUpdateTime = now],
                         ObsStep(r).Replicas, result.obs.paused)
            /\ result.requeueAfter = 5
            /\ result.err = "nil"

\* C1 witness: a drift observed in the terminal state Timeout was repaired
C1_Witness ==
    \A r \in {ObsRead} :
        /\ ObservedValid(r) /\ ObsDrift(r)
        /\ r.sa.CurrentStepState = "Timeout"
        /\ result.patched

\* C2: after any pass that patches the workload, the persisted
\* desired-replica-count equals Steps[currentStepIndex-1].replicas of the
\* persisted plan.
C2_DesiredMatchesStep ==
    (Ran /\ result.patched) =>
        \A p \in {Plan} :
            /\ p.err = "nil"
            /\ p.sa.CurrentStepIndex \in 1..Len(p.sa.Steps)
            /\ replicas = p.sa.Steps[p.sa.CurrentStepIndex].Replicas

\* C2 witness: a patch that moved the plan to another step
C2_Witness ==
    \A r \in {ObsRead} : \A p \in {Plan} :
        /\ ObservedValid(r) /\ result.patched
        /\ p.err = "nil"
        /\ p.sa.CurrentStepIndex # r.sa.CurrentStepIndex
        /\ replicas # result.obs.replicas

\* C3: starting from a plan with 1 <= currentStepIndex <= len(Steps), every
\* reachable state keeps 1 <= currentStepIndex <= len(Steps).
C3_IndexInRange ==
    \A p \in {Plan} :
        p.err = "nil" => (p.sa.CurrentStepIndex >= 1 /\ p.sa.CurrentStepIndex <= Len(p.sa.Steps))

\* C3 witness: a pass ran in state Ready at the last step and patched
C3_Witness ==
    \A r \in {ObsRead} :
        /\ ObservedValid(r) /\ ~ObsDrift(r)
        /\ r.sa.CurrentStepState = "StepReady"
        /\ ObsLast(r)
        /\ ~result.obs.paused
        /\ result.patched

\* C4: Ready advance. In state Ready with no drift, pause flag false and
\* currentStepIndex < len(Steps), a pass persists index + 1, desired = the new
\* step's replicas, state Paused if the new step pauses else Upgrade,
\* lastUpdateTime = now, and requests no retry, whatever the status counts.
C4_ReadyAdvance ==
    \A r \in {ObsRead} :
        (/\ ObservedValid(r) /\ ~ObsDrift(r)
         /\ r.sa.CurrentStepState = "StepReady"
         /\ ~result.obs.paused
         /\ ~ObsLast(r)) =>
            LET next == r.sa.Steps[r.sa.CurrentStepIndex + 1]
            IN  /\ Persisted([r.sa EXCEPT
                                !.CurrentStepIndex = r.sa.CurrentStepIndex + 1,
                                !.CurrentStepState =
                                    IF next.Pause THEN "StepPaused" ELSE "StepUpgrade",
                                !.LastUpdateTime = now],
                             next.Replicas, FALSE)
                /\ result.requeueAfter = 0

\* C4 witness: the advance happened while total # desired and available # total
C4_Witness ==
    \A r \in {ObsRead} :
        /\ ObservedValid(r) /\ ~ObsDrift(r)
        /\ r.sa.CurrentStepState = "StepReady"
        /\ ~result.obs.paused /\ ~ObsLast(r)
        /\ result.obs.statusReplicas # result.obs.replicas
        /\ result.obs.availableReplicas # result.obs.statusReplicas
        /\ result.patched

\* C5: Upgrade success. In state Upgrade with no drift, pause flag false,
\* total = desired and available = total, a pass sets the state to Completed at
\* the last step and to Ready otherwise, stamps lastUpdateTime, persists, and
\* leaves index, desired-replica-count and pause flag unchanged.
C5_UpgradeSuccess ==
    \A r \in {ObsRead} :
        (/\ ObservedValid(r) /\ ~ObsDrift(r)
         /\ r.sa.CurrentStepState = "StepUpgrade"
         /\ ~result.obs.paused
         /\ result.obs.statusReplicas = result.obs.replicas
         /\ result.obs.availableReplicas = result.obs.statusReplicas) =>
            Persisted([r.sa EXCEPT
                         !.CurrentStepState = IF ObsLast(r) THEN "Completed" ELSE "StepReady",
                         !.LastUpdateTime = now],
                      result.obs.replicas, FALSE)

\* C5 witness: a healthy Upgrade at the last step was persisted as Completed
C5_Witness ==
    \A r \in {ObsRead} :
        /\ ObservedValid(r) /\ ~ObsDrift(r)
        /\ r.sa.CurrentStepState = "StepUpgrade"
        /\ ~result.obs.paused
        /\ result.obs.statusReplicas = result.obs.replicas
        /\ result.obs.availableReplicas = result.obs.statusReplicas
        /\ ObsLast(r)
        /\ result.patched

\* C6: deadline failure. In state Upgrade with no drift, pause flag false,
\* total = desired, available # total and now >= lastUpdateTime +
\* maxWaitAvailableSeconds, a pass that observes unavailable >
\* maxUnavailableReplicas sets the state to Timeout, stamps lastUpdateTime and
\* persists, with index and desired-replica-count unchanged.
C6_DeadlineTimeout ==
    \A r \in {ObsRead} :
        (/\ ObservedValid(r) /\ ~ObsDrift(r)
         /\ r.sa.CurrentStepState = "StepUpgrade"
         /\ ~result.obs.paused
         /\ result.obs.statusReplicas = result.obs.replicas
         /\ result.obs.availableReplicas # result.obs.statusReplicas
         /\ ObsAtDeadline(r)
         /\ result.obs.unavailableReplicas > r.sa.MaxUnavailableReplicas) =>
            Persisted([r.sa EXCEPT !.CurrentStepState = "Timeout", !.LastUpdateTime = now],
                      result.obs.replicas, FALSE)

\* C6 witness: Timeout was persisted by a pass exactly at the deadline
C6_Witness ==
    \A r \in {ObsRead} :
        /\ ObservedValid(r) /\ ~ObsDrift(r)
        /\ r.sa.CurrentStepState = "StepUpgrade"
        /\ ~result.obs.paused
        /\ result.obs.statusReplicas = result.obs.replicas
        /\ result.obs.availableReplicas # result.obs.statusReplicas
        /\ now = r.sa.LastUpdateTime + r.sa.MaxWaitAvailableSecond
        /\ result.obs.unavailableReplicas > r.sa.MaxUnavailableReplicas
        /\ result.patched

C8_PausePoint ==
    \A r \in {ObsRead} :
        (/\ ObservedValid(r) /\ ~ObsDrift(r)
         /\ r.sa.CurrentStepState = "StepPaused"
         /\ result.obs.statusReplicas = result.obs.replicas
         /\ result.obs.availableReplicas = result.obs.statusReplicas) =>
            IF result.obs.paused
            THEN ~result.patch /\ Untouched /\ result.requeueAfter = 0 /\ result.err = "nil"
            ELSE Persisted([r.sa EXCEPT !.LastUpdateTime = now], result.obs.replicas, TRUE)

\* C8 witness: the pause flag was set at a healthy pause point
C8_Witness ==
    \A r \in {ObsRead} :
        /\ ObservedValid(r) /\ ~ObsDrift(r)
        /\ r.sa.CurrentStepState = "StepPaused"
        /\ result.obs.statusReplicas = result.obs.replicas
        /\ result.obs.availableReplicas = result.obs.statusReplicas
        /\ ~result.obs.paused
        /\ result.patched /\ paused

\* C9: Timeout never auto-recovers. Once the engine has persisted Timeout, and
\* until an external actor writes the plan, no sequence of passes, status changes
\* and external changes of desired-replica-count or pause flag changes
\* currentStepIndex or brings the plan to Ready or Completed.
C9_TimeoutNeverRecovers ==
    terminal.state = "Timeout" =>
        \A p \in {Plan} :
            /\ p.err = "nil"
            /\ p.sa.CurrentStepIndex = terminal.index
            /\ p.sa.CurrentStepState \notin {"StepReady", "Completed"}

\* C10: Completed is terminal for step progress. Once the engine has persisted
\* Completed, and until an external actor writes the plan, no pass changes
\* currentStepIndex, and the only passes that write are those that detect drift
\* and re-apply Steps[currentStepIndex-1].replicas.
C10_CompletedOnlyRefixes ==
    [][(terminal.state = "Completed" /\ result'.patched) =>
            /\ ReadScaleAnnotation(annotations', now').sa.CurrentStepIndex = terminal.index
            /\ result'.obs.replicas #
                 ReadScaleAnnotation(annotations, now).sa.Steps[terminal.index].Replicas]_vars

\* C11: NotManaged. Whenever at least one of steps, current_step_index and
\* current_step_state is absent from the fetched metadata, whatever the other
\* keys hold (a present but unparseable steps or current_step_index included),
\* the pass skips the workload: success, no retry, no error, no patch, nothing
\* changed.
C11_AbsentScaffoldIsNotManaged ==
    (Ran /\ \E k \in {"steps", "current_step_index", "current_step_state"} :
                k \notin DOMAIN result.obs.annotations) =>
        /\ result.branch = "notmanaged"
        /\ result.err = "nil"
        /\ result.requeueAfter = 0
        /\ ~result.patch
        /\ Untouched

\* C12: MalformedPlan. When the three scaffold keys are present and a present
\* steps, current_step_index, max_wait_available_time, max_unavailable_replicas
\* or last_update_time value does not parse, the pass returns an error and
\* performs no patch: the persisted plan, desired-replica-count and pause flag
\* are as fetched.
C12_MalformedPlan ==
    (/\ Ran
     /\ {"steps", "current_step_index", "current_step_state"}
            \subseteq DOMAIN result.obs.annotations
     /\ \/ result.obs.annotations["steps"].kind \notin {"array", "null"}
        \/ \E k \in {"current_step_index", "max_wait_available_time",
                     "max_unavailable_replicas", "last_update_time"} :
               /\ k \in DOMAIN result.obs.annotations
               /\ \E v \in {result.obs.annotations[k]} :
                     \/ v = <<>>
                     \/ \E i \in 1..Len(v) :
                           v[i] \notin {"0", "1", "2", "3", "4", "5", "6", "7", "8", "9"}
                           /\ ~(i = 1 /\ Len(v) > 1 /\ v[i] \in {"+", "-"})) =>
        /\ result.err \notin {"nil", "waiting"}
        /\ ~result.patch
        /\ Untouched

\* C12 witness: a plan in state Ready, complete but for a last_update_time that
\* is no integer, was refused
C12_Witness ==
    /\ Ran
    /\ {"steps", "current_step_index", "current_step_state", "last_update_time"}
            \subseteq DOMAIN result.obs.annotations
    /\ result.obs.annotations["steps"].kind = "array"
    /\ result.obs.annotations["current_step_index"] = <<"1">>
    /\ result.obs.annotations["current_step_state"] = "StepReady"
    /\ result.obs.annotations["last_update_time"] = <<"1", "x">>
    /\ "max_wait_available_time" \in DOMAIN result.obs.annotations
    /\ ~result.obs.replicasNil
    /\ result.err = "parse"

\* C13: a decoded plan whose currentStepIndex is outside 1..len(Steps), or whose
\* step list is empty, is rejected as a malformed plan: the pass returns the
\* decode error, performs no patch and does not index Steps.
C13_OutOfRangeRejected ==
    \A r \in {ObsRead} :
        (/\ Ran
         /\ r.err = "nil"
         /\ ~result.obs.replicasNil
         /\ (r.sa.CurrentStepIndex < 1 \/ r.sa.CurrentStepIndex > Len(r.sa.Steps))) =>
            /\ result.branch = "malformed"
            /\ result.err = "parse"
            /\ ~result.patch
            /\ Untouched

\* C14: when the fetched deployment has no spec.replicas (nil) and carries a
\* decodable plan, the pass reports a precondition failure without patching and
\* without dereferencing the nil pointer.
C14_UnsetReplicasIsPreconditionFailure ==
    \A r \in {ObsRead} :
        (/\ Ran
         /\ r.err = "nil"
         /\ r.sa.CurrentStepIndex >= 1 /\ r.sa.CurrentStepIndex <= Len(r.sa.Steps)
         /\ result.obs.replicasNil) =>
            /\ result.branch # "panic"
            /\ result.err \notin {"nil", "panic"}
            /\ ~result.patch
            /\ Untouched

\* C15: no persistence error is dropped. On every path of a pass that calls
\* patchDeployment, the drift gate of each of the five states included, a failed
\* re-fetch or patch makes the pass return that error and not a success.
C15_PersistenceErrorReturned ==
    (Ran /\ result.patch /\ ~result.patched) => result.err = "patch"

\* C16: encode frame. SetScaleAnnotation writes only steps, current_step_index,
\* current_step_state, message, max_wait_available_time,
\* max_unavailable_replicas and last_update_time: every other key of the bag
\* keeps its value, none is removed, no other key appears, and an empty (nil)
\* bag becomes a bag of exactly these seven keys.
C16_EncodeFrame ==
    result.branch \in {"encode", "roundtrip"} =>
        /\ DOMAIN annotations =
             (DOMAIN result.obs.annotations) \cup
                {"steps", "current_step_index", "current_step_state", "message",
                 "max_wait_available_time", "max_unavailable_replicas", "last_update_time"}
        /\ \A k \in (DOMAIN result.obs.annotations) \
                {"steps", "current_step_index", "current_step_state", "message",
                 "max_wait_available_time", "max_unavailable_replicas", "last_update_time"} :
               annotations[k] = result.obs.annotations[k]

\* C16 witness: a plan was encoded onto a bag that held another owner's key and
\* lacked some of the plan's keys
C16_Witness ==
    /\ result.branch = "encode"
    /\ "owner" \in DOMAIN result.obs.annotations
    /\ "steps" \in DOMAIN result.obs.annotations
    /\ "message" \notin DOMAIN result.obs.annotations
    /\ annotations["owner"] = "team-a"
    /\ annotations["message"] = "canary"

\* C17: round trip on metadata. For every bag m that decodes to a plan,
\* encode(decode(m), m) differs from m in at most the six of the owned keys that
\* have more than one spelling or a default (steps, current_step_index, message,
\* max_wait_available_time, max_unavailable_replicas, last_update_time); every
\* other key, current_step_state included, is present with its value unchanged
\* and no key is added outside the owned ones.
C17_RoundTripFrame ==
    result.branch = "roundtrip" =>
        /\ \A k \in (DOMAIN result.obs.annotations) \
                {"steps", "current_step_index", "message", "max_wait_available_time",
                 "max_unavailable_replicas", "last_update_time"} :
               k \in DOMAIN annotations /\ annotations[k] = result.obs.annotations[k]
        /\ (DOMAIN annotations) \ (DOMAIN result.obs.annotations) \subseteq
                {"message", "max_wait_available_time", "max_unavailable_replicas",
                 "last_update_time"}

\* C17 witness: a round trip that changed the bag in all six keys and kept
\* another owner's key
C17_Witness ==
    /\ result.branch = "roundtrip"
    /\ "owner" \in DOMAIN result.obs.annotations
    /\ annotations["owner"] = "team-a"
    /\ annotations["steps"] # result.obs.annotations["steps"]
    /\ annotations["current_step_index"] # result.obs.annotations["current_step_index"]
    /\ "message" \notin DOMAIN result.obs.annotations
    /\ "max_wait_available_time" \notin DOMAIN result.obs.annotations
    /\ "max_unavailable_replicas" \in DOMAIN result.obs.annotations
    /\ annotations["max_unavailable_replicas"] # result.obs.annotations["max_unavailable_replicas"]
    /\ "last_update_time" \notin DOMAIN result.obs.annotations

\* C18: patch frame. Every applied patch is made on the deployment as re-fetched
\* at patch time and changes at most its annotations, spec.replicas and
\* spec.paused: every other field (here the status counts, which the deployment
\* controller edits between the pass's fetch and its patch) keeps the value it
\* has in the store at patch time.
C18_PatchFrame ==
    [][(pass.active /\ result'.patched) =>
            /\ statusReplicas' = statusReplicas
            /\ availableReplicas' = availableReplicas
            /\ unavailableReplicas' = unavailableReplicas]_vars

\* C18 witness: a patch was applied by a pass whose fetched copy had other
\* status counts than the store at patch time
C18_Witness ==
    /\ Ran
    /\ result.patched
    /\ result.obs.statusReplicas # statusReplicas
    /\ result.obs.availableReplicas # availableReplicas

\* C19: the deadline budget restarts on every plan change. Every pass whose
\* applied patch changes currentStepState, currentStepIndex or
\* desired-replica-count writes lastUpdateTime = now in that same patch.
C19_ChangeStampsTime ==
    \A r \in {ObsRead} : \A p \in {Plan} :
        (/\ Ran /\ result.patched
         /\ r.err = "nil"
         /\ \/ p.err # "nil"
            \/ p.sa.CurrentStepState # r.sa.CurrentStepState
            \/ p.sa.CurrentStepIndex # r.sa.CurrentStepIndex
            \/ replicas # result.obs.replicas) =>
            p.err = "nil" /\ p.sa.LastUpdateTime = now

\* C19 witness: a pass moved the plan to the next step, with another
\* desired-replica-count, later than the plan's previous stamp
C19_Witness ==
    \A r \in {ObsRead} : \A p \in {Plan} :
        /\ Ran /\ result.patched
        /\ r.err = "nil" /\ p.err = "nil"
        /\ p.sa.CurrentStepIndex = r.sa.CurrentStepIndex + 1
        /\ replicas # result.obs.replicas
        /\ r.sa.LastUpdateTime < now
        /\ p.sa.LastUpdateTime = now

\* C20: a rollout halts at a pause step. A pass that finds the plan in state
\* Paused with desired-replica-count at the step's target (no external write to
\* the plan or to desired-replica-count since the engine paused there) never
\* changes currentStepIndex, the steps or desired-replica-count, whatever the
\* status counts: it leaves the workload as fetched, or sets the pause flag
\* keeping state Paused, or moves the state to Timeout; so the plan stays at that
\* step until an external actor writes.
C20_PausedHalts ==
    \A r \in {ObsRead} : \A p \in {Plan} :
        (/\ ObservedValid(r) /\ ~ObsDrift(r)
         /\ r.sa.CurrentStepState = "StepPaused") =>
            /\ p.err = "nil"
            /\ p.sa.CurrentStepIndex = r.sa.CurrentStepIndex
            /\ p.sa.Steps = r.sa.Steps
            /\ replicas = result.obs.replicas
            /\ \/ Untouched
               \/ /\ p.sa.CurrentStepState = "StepPaused"
                  /\ ~result.obs.paused /\ paused
               \/ /\ p.sa.CurrentStepState = "Timeout"
                  /\ paused = result.obs.paused

\* C20 witness: a pass on a healthy pause point that already has the pause flag
\* set, before the last step of the plan, left everything as it was
C20_Witness ==
    \A r \in {ObsRead} :
        /\ ObservedValid(r) /\ ~ObsDrift(r)
        /\ r.sa.CurrentStepState = "StepPaused"
        /\ r.sa.CurrentStepIndex < Len(r.sa.Steps)
        /\ result.obs.paused
        /\ result.obs.statusReplicas = result.obs.replicas
        /\ result.obs.availableReplicas = result.obs.statusReplicas
        /\ ~result.patch
        /\ Untouched

\* C21 (as stated): release resumes from the stop point. After release rewrote
\* the state of a held pause point (state Paused, pause flag true, desired = step
\* target) to Ready, the next pass clears the pause flag, leaves the plan and
\* desired-replica-count as they are and requests a retry after 5 seconds, and
\* the pass after it advances currentStepIndex by exactly one to the next step.
C21_ReleaseAdvances ==
    \A r \in {ObsRead} : \A p \in {Plan} :
        /\ (Ran /\ result.history.stage = 1) =>
              /\ result.patch
              /\ result.requeueAfter = 5
              /\ IF result.patched
                 THEN /\ ~paused
                      /\ annotations = result.obs.annotations
                      /\ replicas = result.obs.replicas
                 ELSE Untouched
        /\ (Ran /\ result.history.stage = 2 /\ result.patched) =>
              /\ p.err = "nil"
              /\ p.sa.CurrentStepIndex = result.history.index + 1
              /\ p.sa.CurrentStepIndex <= Len(p.sa.Steps)
              /\ replicas = p.sa.Steps[p.sa.CurrentStepIndex].Replicas

\* C21 (amended): the same, where the pass after the unpause advances by exactly
\* one step when the pause point is not the last step of the plan, and sets
\* Completed with index and desired-replica-count unchanged when it is the last.
C21_ReleaseAdvancesOrCompletes ==
    \A r \in {ObsRead} : \A p \in {Plan} :
        /\ (Ran /\ result.history.stage = 1) =>
              /\ result.patch
              /\ result.requeueAfter = 5
              /\ IF result.patched
                 THEN /\ ~paused
                      /\ annotations = result.obs.annotations
                      /\ replicas = result.obs.replicas
                 ELSE Untouched
        /\ (Ran /\ result.history.stage = 2) =>
              /\ r.err = "nil"
              /\ r.sa.CurrentStepIndex = result.history.index
              /\ IF result.history.index < Len(r.sa.Steps)
                 THEN LET next == r.sa.Steps[result.history.index + 1]
                      IN  Persisted([r.sa EXCEPT
                                        !.CurrentStepIndex = result.history.index + 1,
                                        !.CurrentStepState =
                                            IF next.Pause THEN "StepPaused" ELSE "StepUpgrade",
                                        !.LastUpdateTime = now],
                                    next.Replicas, FALSE)
                 ELSE Persisted([r.sa EXCEPT !.CurrentStepState = "Completed",
                                             !.LastUpdateTime = now],
                                result.obs.replicas, FALSE)

\* C21 witness: the second pass after a release from a pause point in the middle
\* of the plan moved the plan to the following step
C21_Witness ==
    \A p \in {Plan} :
        /\ Ran /\ result.history.stage = 2 /\ result.patched
        /\ p.err = "nil"
        /\ p.sa.CurrentStepIndex = result.history.index + 1
        /\ replicas # result.obs.replicas

\* C22: steps are visited in plan order with none skipped. Every pass that
\* patches the workload ran on a valid plan, leaves the step list as it was,
\* leaves currentStepIndex where it was or raises it by exactly one, and leaves
\* the desired-replica-count at the replicas of the step the persisted index
\* points at; so between two external writes the values the engine writes are
\* Steps[i].replicas for consecutive i, whatever the order of the step sizes.
C22_StepsInOrder ==
    \A r \in {ObsRead} : \A p \in {Plan} :
        (Ran /\ result.patched) =>
            /\ ObservedValid(r)
            /\ p.err = "nil"
            /\ p.sa.Steps = r.sa.Steps
            /\ \/ p.sa.CurrentStepIndex = r.sa.CurrentStepIndex
               \/ p.sa.CurrentStepIndex = r.sa.CurrentStepIndex + 1
            /\ replicas = r.sa.Steps[p.sa.CurrentStepIndex].Replicas
            /\ (~ObsDrift(r) /\ replicas # result.obs.replicas) =>
                   p.sa.CurrentStepIndex = r.sa.CurrentStepIndex + 1

\* C22 witness: in a plan that goes up and then down (1, 2, 0) the pass moved
\* from the second step to the third and lowered the desired-replica-count
C22_Witness ==
    \A r \in {ObsRead} : \A p \in {Plan} :
        /\ ObservedValid(r) /\ ~ObsDrift(r) /\ result.patched
        /\ Len(r.sa.Steps) = 3
        /\ r.sa.Steps[1].Replicas < r.sa.Steps[2].Replicas
        /\ r.sa.Steps[3].Replicas < r.sa.Steps[2].Replicas
        /\ r.sa.CurrentStepIndex = 2
        /\ p.err = "nil" /\ p.sa.CurrentStepIndex = 3
        /\ replicas = r.sa.Steps[3].Replicas

\* C23: Ready at the last step. In state Ready with no drift, pause flag false
\* and currentStepIndex = len(Steps), a pass persists state Completed with
\* lastUpdateTime = now, the same index, desired-replica-count and pause flag,
\* and requests no retry.
C23_ReadyAtLastStep ==
    \A r \in {ObsRead} :
        (/\ ObservedValid(r) /\ ~ObsDrift(r)
         /\ r.sa.CurrentStepState = "StepReady"
         /\ ~result.obs.paused
         /\ ObsLast(r)) =>
            /\ Persisted([r.sa EXCEPT !.CurrentStepState = "Completed",
                                      !.LastUpdateTime = now],
                         result.obs.replicas, FALSE)
            /\ result.requeueAfter = 0

\* C23 witness: the plan was completed at a later time than its last stamp,
\* while the rollout of the last step was still short of its replicas
C23_Witness ==
    \A r \in {ObsRead} : \A p \in {Plan} :
        /\ ObservedValid(r) /\ ~ObsDrift(r)
        /\ r.sa.CurrentStepState = "StepReady"
        /\ ~result.obs.paused /\ ObsLast(r)
        /\ result.patched
        /\ p.err = "nil" /\ p.sa.CurrentStepState = "Completed"
        /\ r.sa.LastUpdateTime < now
        /\ result.obs.availableReplicas # result.obs.replicas

\* C24: before the deadline nothing is written. In state Upgrade with the pause
\* flag false, or in state Paused, with no drift, total = desired, available #
\* total and now < lastUpdateTime + maxWaitAvailableSeconds, a pass makes no
\* patch, returns no error and asks for a retry after 5 seconds, whatever the
\* number of unavailable replicas.
C24_BeforeDeadlineNothingWritten ==
    \A r \in {ObsRead} :
        (/\ ObservedValid(r) /\ ~ObsDrift(r)
         /\ \/ r.sa.CurrentStepState = "StepUpgrade" /\ ~result.obs.paused
            \/ r.sa.CurrentStepState = "StepPaused"
         /\ result.obs.statusReplicas = result.obs.replicas
         /\ result.obs.availableReplicas # result.obs.statusReplicas
         /\ ~ObsAtDeadline(r)) =>
            /\ ~result.patch
            /\ Untouched
            /\ result.err = "nil"
            /\ result.requeueAfter = 5

\* C24 witness: a pass one second before the deadline, after the stamp, with
\* more unavailable replicas than the plan tolerates
C24_Witness ==
    \A r \in {ObsRead} :
        /\ ObservedValid(r) /\ ~ObsDrift(r)
        /\ r.sa.CurrentStepState \in {"StepUpgrade", "StepPaused"}
        /\ result.branch = "converging"
        /\ now > r.sa.LastUpdateTime
        /\ now + 1 = r.sa.LastUpdateTime + r.sa.MaxWaitAvailableSecond
        /\ result.obs.unavailableReplicas > r.sa.MaxUnavailableReplicas

\* C25: Paused deadline policy. In state Paused with no drift, total = desired,
\* available # total and now >= the step deadline: with unavailable >
\* maxUnavailableReplicas the pass persists state Timeout with lastUpdateTime =
\* now (index, desired-replica-count and pause flag as they were); with
\* unavailable <= maxUnavailableReplicas the state and the index stay, and the
\* pass persists pause flag = true with lastUpdateTime = now if the flag was
\* false, and writes nothing if the flag was already true.
C25_PausedDeadlinePolicy ==
    \A r \in {ObsRead} :
        (/\ ObservedValid(r) /\ ~ObsDrift(r)
         /\ r.sa.CurrentStepState = "StepPaused"
         /\ result.obs.statusReplicas = result.obs.replicas
         /\ result.obs.availableReplicas # result.obs.statusReplicas
         /\ ObsAtDeadline(r)) =>
            IF result.obs.unavailableReplicas > r.sa.MaxUnavailableReplicas
            THEN Persisted([r.sa EXCEPT !.CurrentStepState = "Timeout",
                                        !.LastUpdateTime = now],
                           result.obs.replicas, result.obs.paused)
            ELSE IF result.obs.paused
            THEN ~result.patch /\ Untouched /\ result.err = "nil"
            ELSE Persisted([r.sa EXCEPT !.LastUpdateTime = now], result.obs.replicas, TRUE)

\* C25 witness: past the deadline, within the tolerance, the pause flag was
\* false and the pass set it, keeping state Paused
C25_Witness ==
    \A r \in {ObsRead} : \A p \in {Plan} :
        /\ ObservedValid(r) /\ ~ObsDrift(r)
        /\ r.sa.CurrentStepState = "StepPaused"
        /\ result.branch = "tolerated"
        /\ ~result.obs.paused /\ result.patched /\ paused
        /\ p.err = "nil" /\ p.sa.CurrentStepState = "StepPaused"
        /\ r.sa.LastUpdateTime < now

\* C26: transient waiting. In state Upgrade with no drift and the pause flag
\* false, or in state Paused with no drift, a pass that observes total replicas
\* # desired-replica-count returns the 'waiting for rollout to finish' error
\* with a retry after 5 seconds and makes no patch, whatever the deadline and
\* the unavailable count: the workload, and so the state, stay as fetched.
C26_TransientWaiting ==
    \A r \in {ObsRead} :
        (/\ ObservedValid(r) /\ ~ObsDrift(r)
         /\ \/ r.sa.CurrentStepState = "StepUpgrade" /\ ~result.obs.paused
            \/ r.sa.CurrentStepState = "StepPaused"
         /\ result.obs.statusReplicas # result.obs.replicas) =>
            /\ result.err = "waiting"
            /\ result.requeueAfter = 5
            /\ ~result.patch
            /\ Untouched

\* C26 witness: the pass waited in state Upgrade although the deadline had
\* passed and more replicas were unavailable than the plan tolerates
C26_Witness ==
    \A r \in {ObsRead} :
        /\ ObservedValid(r) /\ ~ObsDrift(r)
        /\ r.sa.CurrentStepState = "StepUpgrade" /\ ~result.obs.paused
        /\ result.obs.statusReplicas # result.obs.replicas
        /\ result.branch = "waiting"
        /\ ObsAtDeadline(r)
        /\ now > r.sa.LastUpdateTime + r.sa.MaxWaitAvailableSecond
        /\ result.obs.unavailableReplicas > r.sa.MaxUnavailableReplicas
        /\ result.obs.availableReplicas # result.obs.statusReplicas

\* C27: time spent waiting is not counted against the step deadline. When the
\* first pass after an unbroken run of passes that returned the waiting error
\* declares a step in Upgrade or Paused Timeout, the time since lastUpdateTime
\* less the time spanned by that run is at least maxWaitAvailableSeconds.
C27_WaitingNotCounted ==
    \A r \in {ObsRead} : \A p \in {Plan} :
        (/\ ObservedValid(r)
         /\ r.sa.CurrentStepState \in {"StepUpgrade", "StepPaused"}
         /\ result.history.waited
         /\ result.patched
         /\ p.err = "nil" /\ p.sa.CurrentStepState = "Timeout") =>
            (now - r.sa.LastUpdateTime)
              - (result.history.waitedAt - result.history.waitedSince)
                >= r.sa.MaxWaitAvailableSecond

\* C28: Upgrade and Ready do not proceed while paused. In state Upgrade or Ready
\* with no drift and the pause flag observed true, a pass patches the pause flag
\* to false and nothing else (annotations, hence state, index and
\* lastUpdateTime, and desired-replica-count stay as fetched), whatever the
\* status counts and the deadline, and asks for a retry after 5 seconds.
C28_UnpauseOnly ==
    \A r \in {ObsRead} :
        (/\ ObservedValid(r) /\ ~ObsDrift(r)
         /\ r.sa.CurrentStepState \in {"StepUpgrade", "StepReady"}
         /\ result.obs.paused) =>
            /\ result.patch
            /\ result.requeueAfter = 5
            /\ IF result.patched
               THEN /\ ~paused
                    /\ Stored(r.sa, result.obs.replicas, FALSE)
                    /\ Deployment = [result.obs EXCEPT !.paused = FALSE]
               ELSE Untouched

\* C28 witness: the flag was cleared in state Upgrade past the deadline, with
\* the rollout complete and available, and the state stayed Upgrade
C28_Witness ==
    \A r \in {ObsRead} : \A p \in {Plan} :
        /\ ObservedValid(r) /\ ~ObsDrift(r)
        /\ r.sa.CurrentStepState = "StepUpgrade"
        /\ result.obs.paused /\ result.patched /\ ~paused
        /\ ObsAtDeadline(r)
        /\ result.obs.statusReplicas = result.obs.replicas
        /\ result.obs.availableReplicas = result.obs.statusReplicas
        /\ p.err = "nil" /\ p.sa.CurrentStepState = "StepUpgrade"

\* C29: Completed without drift is a no-op. In state Completed with
\* desired-replica-count = Steps[currentStepIndex-1].replicas, a pass makes no
\* patch, returns no error and asks for no retry, whatever the pause flag and
\* the status counts; the stored workload is as fetched.
C29_CompletedNoOp ==
    \A r \in {ObsRead} :
        (/\ ObservedValid(r) /\ ~ObsDrift(r)
         /\ r.sa.CurrentStepState = "Completed") =>
            /\ ~result.patch
            /\ result.err = "nil"
            /\ result.requeueAfter = 0
            /\ Untouched

\* C29 witness: a pass on a Completed plan with the pause flag set and the
\* status counts away from the desired count
C29_Witness ==
    \A r \in {ObsRead} :
        /\ ObservedValid(r) /\ ~ObsDrift(r)
        /\ r.sa.CurrentStepState = "Completed"
        /\ result.branch = "success"
        /\ result.obs.paused
        /\ result.obs.statusReplicas # result.obs.replicas
        /\ result.obs.availableReplicas # result.obs.statusReplicas

\* C30: Timeout freeze. In state Timeout with no drift, a pass patches the
\* pause flag to true and nothing else (annotations, hence state, index and
\* lastUpdateTime, and desired-replica-count stay as fetched) and asks for no
\* retry; so a pause flag that another actor cleared is set again.
C30_TimeoutFreeze ==
    \A r \in {ObsRead} :
        (/\ ObservedValid(r) /\ ~ObsDrift(r)
         /\ r.sa.CurrentStepState = "Timeout") =>
            /\ result.patch
            /\ result.requeueAfter = 0
            /\ IF result.patched
               THEN /\ paused
                    /\ Stored(r.sa, result.obs.replicas, TRUE)
                    /\ Deployment = [result.obs EXCEPT !.paused = TRUE]
               ELSE Untouched

\* C30 witness: a pass found a Timeout plan with the pause flag false, some time
\* after the Timeout was stamped, and set the flag
C30_Witness ==
    \A r \in {ObsRead} : \A p \in {Plan} :
        /\ ObservedValid(r) /\ ~ObsDrift(r)
        /\ r.sa.CurrentStepState = "Timeout"
        /\ ~result.obs.paused /\ result.patched /\ paused
        /\ r.sa.LastUpdateTime < now
        /\ p.err = "nil" /\ p.sa = r.sa

\* C31: one patch per pass. A step of the engine (one that moves the pass)
\* either leaves the stored annotations, spec.replicas and spec.paused as they
\* are, or is the step that ends the pass with an applied patch and puts all
\* three at once at what the pass decided on its fetched copy; so a pass that is
\* cut short leaves the stored workload as it was, and one that is not leaves it
\* as decided.
C31_SinglePatch ==
    [][(pass' # pass) =>
          \/ /\ annotations' = annotations
             /\ replicas' = replicas
             /\ replicasNil' = replicasNil
             /\ paused' = paused
          \/ /\ pass.active /\ ~pass'.active
             /\ result'.patch /\ result'.patched
             /\ \E o \in {Decide(pass.d, now)} :
                   /\ o.patch
                   /\ annotations' = o.annotations
                   /\ replicas' = o.replicas
                   /\ paused' = o.paused]_vars

\* C31 witness: the patch of a drift repair was applied, and the stored plan and
\* spec.replicas both differ from what the pass had fetched
C31_Witness ==
    /\ Ran /\ ~pass.active
    /\ result.patched /\ result.branch = "fix"
    /\ annotations # result.obs.annotations
    /\ replicas # result.obs.replicas

\* C32: losing a race is harmless. When a pass ends and the store then holds a
\* plan with other steps than the plan the pass fetched, at index 1 in state
\* Ready (an initiator replaced the plan after the fetch), the pass leaves the
\* stored annotations, and so the initiator's plan, as they are.
C32_StalePassKeepsNewPlan ==
    [][\A old \in {ReadScaleAnnotation(pass.d.annotations, now)} : \A new \in {Plan} :
          (/\ pass.active /\ ~pass'.active
           /\ old.err = "nil" /\ new.err = "nil"
           /\ new.sa.Steps # old.sa.Steps
           /\ new.sa.CurrentStepIndex = 1
           /\ new.sa.CurrentStepState = "StepReady") =>
              annotations' = annotations]_vars

\* C33 as stated: progress. A plan without pause steps, written at index 1 in
\* state Ready and left alone by every other writer, eventually is in state
\* Completed at index len(Steps) with desired-replica-count = the last step's
\* replicas, given that queued passes run and every rollout finishes.
C33_Progress ==
    <>(\A p \in {Plan} :
          /\ p.err = "nil"
          /\ p.sa.CurrentStepState = "Completed"
          /\ p.sa.CurrentStepIndex = Len(p.sa.Steps)
          /\ replicas = p.sa.Steps[Len(p.sa.Steps)].Replicas)

\* C33: progress unless a step times out. Under the same conditions the plan
\* eventually is Completed at index len(Steps) with desired-replica-count = the
\* last step's replicas, or is in state Timeout.
C33_ProgressOrTimeout ==
    <>(\A p \in {Plan} :
          /\ p.err = "nil"
          /\ \/ /\ p.sa.CurrentStepState = "Completed"
                /\ p.sa.CurrentStepIndex = Len(p.sa.Steps)
                /\ replicas = p.sa.Steps[Len(p.sa.Steps)].Replicas
             \/ p.sa.CurrentStepState = "Timeout")

\* C33 witness: the pass that finished the three-step plan, on a workload that
\* reports total = available = desired = 0
C33_Witness ==
    \A p \in {Plan} :
        /\ Ran /\ result.patched
        /\ p.err = "nil"
        /\ p.sa.CurrentStepState = "Completed"
        /\ Len(p.sa.Steps) = 3 /\ p.sa.CurrentStepIndex = 3
        /\ replicas = p.sa.Steps[3].Replicas
        /\ Settled

\* C34: Completed only at the last step. A pass whose applied patch leaves the
\* stored plan in state Completed ran on a plan with currentStepIndex =
\* len(Steps) and did not move the index; and in every reachable state a plan
\* in state Completed has currentStepIndex = len(Steps).
C34_CompletedAtLastStep ==
    \A p \in {Plan} :
        (p.err = "nil" /\ p.sa.CurrentStepState = "Completed") =>
            /\ p.sa.CurrentStepIndex = Len(p.sa.Steps)
            /\ (Ran /\ result.patched) =>
                  \A r \in {ObsRead} :
                      /\ ObservedValid(r)
                      /\ ObsLast(r)
                      /\ r.sa.Steps = p.sa.Steps

\* C34 witness: a pass in state Upgrade at the last step of the three-step
\* plan, some time after the step's stamp, wrote Completed and kept the index
C34_Witness ==
    \A r \in {ObsRead} : \A p \in {Plan} :
        /\ ObservedValid(r) /\ ObsLast(r)
        /\ r.sa.CurrentStepState = "StepUpgrade"
        /\ Len(r.sa.Steps) = 3
        /\ r.sa.LastUpdateTime < now
        /\ result.branch = "available" /\ result.patched
        /\ p.err = "nil" /\ p.sa.CurrentStepState = "Completed"
        /\ p.sa.CurrentStepIndex = 3

\* C35: Timeout has one cause. A pass whose applied patch leaves the stored
\* plan in state Timeout, on a plan that was not in Timeout when fetched, ran in
\* state Upgrade or Paused and observed no drift, total = desired, available #
\* total, now >= lastUpdateTime + maxWaitAvailableSeconds and unavailable >
\* maxUnavailableReplicas.
C35_TimeoutOnlyPastDeadline ==
    \A r \in {ObsRead} : \A p \in {Plan} :
        (/\ Ran /\ result.patched
         /\ p.err = "nil" /\ p.sa.CurrentStepState = "Timeout"
         /\ (r.err # "nil" \/ r.sa.CurrentStepState # "Timeout")) =>
            /\ ObservedValid(r)
            /\ r.sa.CurrentStepState \in {"StepUpgrade", "StepPaused"}
            /\ ~ObsDrift(r)
            /\ result.obs.statusReplicas = result.obs.replicas
            /\ result.obs.availableReplicas # result.obs.statusReplicas
            /\ ObsAtDeadline(r)
            /\ result.obs.unavailableReplicas > r.sa.MaxUnavailableReplicas

\* C35 witness: a pass in state Paused with the pause flag already set wrote
\* Timeout exactly at the deadline
C35_Witness ==
    \A r \in {ObsRead} : \A p \in {Plan} :
        /\ ObservedValid(r)
        /\ r.sa.CurrentStepState = "StepPaused"
        /\ result.obs.paused
        /\ result.patched
        /\ p.err = "nil" /\ p.sa.CurrentStepState = "Timeout"
        /\ now = r.sa.LastUpdateTime + r.sa.MaxWaitAvailableSecond

\* C36: pause-flag discipline. A pass whose applied patch turns the pause flag
\* from false to true started in state Paused or Timeout; one that turns it from
\* true to false started in state Upgrade or Ready; and a pass that takes the
\* drift gate, or advances from Ready to the next step, leaves the flag as it
\* fetched it.
C36_PauseFlagDiscipline ==
    \A r \in {ObsRead} :
        (Ran /\ result.patched) =>
            /\ ObservedValid(r)
            /\ (paused /\ ~result.obs.paused) =>
                  r.sa.CurrentStepState \in {"StepPaused", "Timeout"}
            /\ (~paused /\ result.obs.paused) =>
                  r.sa.CurrentStepState \in {"StepUpgrade", "StepReady"}
            /\ ObsDrift(r) => paused = result.obs.paused
            /\ (/\ ~ObsDrift(r)
                /\ r.sa.CurrentStepState = "StepReady"
                /\ ~result.obs.paused) => ~paused

\* C36 witness: the drift gate repaired a Ready plan on a paused deployment and
\* the deployment stayed paused
C36_Witness ==
    \A r \in {ObsRead} :
        /\ ObservedValid(r) /\ ObsDrift(r)
        /\ r.sa.CurrentStepState = "StepReady"
        /\ result.obs.paused
        /\ result.patched
        /\ paused
        /\ replicas # result.obs.replicas

\* C37: the engine never edits the plan's definition. After a pass whose patch
\* was applied the stored plan decodes, and equals the plan the pass fetched in
\* every field but currentStepIndex, currentStepState and lastUpdateTime: Steps,
\* maxWaitAvailableSeconds, maxUnavailableReplicas and message are as fetched.
C37_PlanDefinitionKept ==
    \A r \in {ObsRead} : \A p \in {Plan} :
        (Ran /\ result.patched) =>
            /\ r.err = "nil" /\ p.err = "nil"
            /\ p.sa.Steps = r.sa.Steps
            /\ p.sa.MaxWaitAvailableSecond = r.sa.MaxWaitAvailableSecond
            /\ p.sa.MaxUnavailableReplicas = r.sa.MaxUnavailableReplicas
            /\ p.sa.Message = r.sa.Message
            /\ p.sa = [r.sa EXCEPT !.CurrentStepIndex = p.sa.CurrentStepIndex,
                                   !.CurrentStepState = p.sa.CurrentStepState,
                                   !.LastUpdateTime = p.sa.LastUpdateTime]

\* C37 witness: a pass on the three-step plan wrote a new state and a new
\* lastUpdateTime at the same index, and the plan kept a tolerance of 1
C37_Witness ==
    \A r \in {ObsRead} : \A p \in {Plan} :
        /\ Ran /\ result.patched
        /\ r.err = "nil" /\ p.err = "nil"
        /\ Len(r.sa.Steps) = 3
        /\ p.sa.CurrentStepIndex = r.sa.CurrentStepIndex
        /\ p.sa.CurrentStepState # r.sa.CurrentStepState
        /\ p.sa.LastUpdateTime # r.sa.LastUpdateTime
        /\ p.sa.MaxUnavailableReplicas = 1
        /\ replicas = result.obs.replicas

\* C38: an unknown state is a silent no-op. When the fetched plan decodes
\* without error and its current_step_state is none of the five handled names,
\* the pass makes no patch (the drift gate included), returns no error and asks
\* for no retry; the stored workload is as fetched.
C38_UnknownStateNoOp ==
    \A r \in {ObsRead} :
        (/\ Ran
         /\ r.err = "nil"
         /\ r.sa.CurrentStepState \notin
              {"StepUpgrade", "StepPaused", "StepReady", "Completed", "Timeout"}) =>
            /\ ~result.patch
            /\ result.err = "nil"
            /\ result.requeueAfter = 0
            /\ Untouched

\* C39: round trip on plans. For every plan p and every bag m,
\* ReadScaleAnnotation(SetScaleAnnotation(m, p)) returns no error and a plan
\* equal to p in Steps (steps of 0 replicas and steps without pause included),
\* currentStepIndex, currentStepState, message, maxWaitAvailableSeconds,
\* maxUnavailableReplicas and lastUpdateTime.
C39_PlanRoundTrip ==
    result.branch = "encode" =>
        \A sa \in EncodedPlans :
            annotations = SetScaleAnnotation(result.obs.annotations, sa) =>
                \A p \in {Plan} :
                    /\ p.err = "nil"
                    /\ p.sa.Steps = sa.Steps
                    /\ p.sa.CurrentStepIndex = sa.CurrentStepIndex
                    /\ p.sa.CurrentStepState = sa.CurrentStepState
                    /\ p.sa.Message = sa.Message
                    /\ p.sa.MaxWaitAvailableSecond = sa.MaxWaitAvailableSecond
                    /\ p.sa.MaxUnavailableReplicas = sa.MaxUnavailableReplicas
                    /\ p.sa.LastUpdateTime = sa.LastUpdateTime

\* C39 witness: the three-step plan, whose last step has 0 replicas and no
\* pause, was encoded onto a bag of another owner whose plan keys did not
\* decode, at a time other than the plan's stamp, and decodes to itself
C39_Witness ==
    \A p \in {Plan} :
        /\ result.branch = "encode"
        /\ "owner" \in DOMAIN result.obs.annotations
        /\ ReadScaleAnnotation(result.obs.annotations, now).err # "nil"
        /\ p.err = "nil"
        /\ Len(p.sa.Steps) = 3
        /\ p.sa.Steps[3] = Step(0, FALSE)
        /\ p.sa.LastUpdateTime # now
        /\ p.sa \in CodecPlans

\* C40: Stop is idempotent and safe under concurrent calls: however many Stop
\* calls run on however many goroutines, close(stopCh) runs at most once, and
\* exactly once as soon as a Stop call has returned; a Stopping call that
\* returns before any Stop call was made returns false, and a Stopping call
\* made after a Stop call has returned returns true.
C40_StopOnce ==
    /\ manager.closes <= 1
    /\ manager.stopReturned # {} => manager.closes = 1 /\ manager.stopped
    /\ manager.observed.valid /\ manager.observed.early => ~manager.observed.value
    /\ manager.observed.valid /\ manager.observed.after => manager.observed.value

\* every goroutine's Stop call has returned, the channel was closed once, the
\* listener that Start left cancelled the context, and a Stopping call made
\* after that has returned true
C40_Witness ==
    /\ manager.stopReturned = Goroutines
    /\ manager.closes = 1
    /\ manager.cancelled
    /\ manager.observed.valid /\ manager.observed.after /\ manager.observed.value

====
